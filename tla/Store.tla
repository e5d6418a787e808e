------------------------------- MODULE Store -------------------------------
(***************************************************************************)
(* The in-memory persistence layer (internal/store) and the identifier     *)
(* generator (internal/app/id.go), reduced to what the workflows need of   *)
(* them.  A collection is a Go map from identifiers to records: a TLA+     *)
(* function whose domain is the set of identifiers saved so far.  Nothing  *)
(* is ever deleted.                                                        *)
(***************************************************************************)

(***************************************************************************)
(* saveX and putX both end in `s.xs[x.ID] = x': the map with the record    *)
(* filed under its identifier, replacing the one that was there.           *)
(***************************************************************************)
Put(collection, id, record) ==
    [x \in DOMAIN collection \cup {id} |->
        IF x = id THEN record ELSE collection[x]]

(***************************************************************************)
(* The generator never repeats an identifier, so saveX never meets one     *)
(* that is taken and its ErrDuplicateID branch is dead for generated       *)
(* identifiers.  HasFresh names the bound a model puts on a collection.    *)
(***************************************************************************)
HasFresh(ids, collection) == \E id \in ids : id \notin DOMAIN collection

Fresh(ids, collection) == CHOOSE id \in ids : id \notin DOMAIN collection

=============================================================================
