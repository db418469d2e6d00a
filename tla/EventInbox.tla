----------------------------- MODULE EventInbox -----------------------------
(***************************************************************************)
(* What the consumer of integration events promises: an event that can be  *)
(* handled takes effect at most once, and as a whole.  No topics, offsets, *)
(* retries or transactions: InboundEvents shows that marking the event in  *)
(* the transaction of its effect implements this.                          *)
(***************************************************************************)
EXTENDS Naturals, Sequences

CONSTANTS Events, Rows, Pools, Writes,
          Handled      \* the events that can be handled

VARIABLES applied,     \* the events that have taken effect
          stored       \* what each row holds, in the order it was written

inboxVars == <<applied, stored>>

(* A pool takes each work unit once, also if an order names it twice; a    *)
(* view takes every change.                                                *)
IsNew(e, i) ==
    LET w == Writes[e][i]
    IN  w.row \in Pools =>
            /\ \A k \in DOMAIN stored[w.row] : stored[w.row][k] # w.item
            /\ \A j \in 1..i : j # i => Writes[e][j] # w

NewWrites(e, r) == {i \in DOMAIN Writes[e] : Writes[e][i].row = r /\ IsNew(e, i)}

(* s has the items of e's writes W, in their order. *)
Lists(s, e, W) ==
    \E at \in [DOMAIN s -> W] :
        /\ \A m, n \in DOMAIN s : m < n => at[m] < at[n]
        /\ \A i \in W : \E n \in DOMAIN s : at[n] = i
        /\ \A n \in DOMAIN s : s[n] = Writes[e][at[n]].item

Init ==
    /\ applied = {}
    /\ stored = [r \in Rows |-> <<>>]

Apply(e) ==
    /\ e \in Handled \ applied
    /\ applied' = applied \cup {e}
    /\ stored' = [r \in Rows |-> stored'[r]]
    /\ \A r \in Rows :
          LET s == SubSeq(stored'[r], Len(stored[r]) + 1, Len(stored'[r]))
          IN  stored'[r] = stored[r] \o s /\ Lists(s, e, NewWrites(e, r))

Next == \E e \in Events : Apply(e)

Spec == Init /\ [][Next]_inboxVars
=============================================================================
