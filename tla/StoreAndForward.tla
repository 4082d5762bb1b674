--------------------------- MODULE StoreAndForward ---------------------------
(***************************************************************************)
(* What the message queue promises to those who hand mail to it, without   *)
(* saying how: what it has promised to handle stays stored until it was    *)
(* delivered, returned to its sender (or its failure noted) or withdrawn   *)
(* by an administrator.  MsgQueue is shown to implement it.                *)
(***************************************************************************)
EXTENDS Integers

CONSTANT Mail

VARIABLES
    stored,     \* mail that is in the store
    promised,   \* mail whose submission was confirmed
    delivered,  \* mail handed to its destination at least once
    returned,   \* mail that failed for good: bounced, or noted as undeliverable
    withdrawn   \* mail removed on request

mailVars == <<stored, promised, delivered, returned, withdrawn>>

Init ==
    /\ stored = {} /\ promised = {} /\ delivered = {} /\ returned = {} /\ withdrawn = {}

Settled == delivered \cup returned \cup withdrawn

Submit(m) ==
    /\ m \notin stored \cup Settled \cup promised
    /\ stored' = stored \cup {m}
    /\ UNCHANGED <<promised, delivered, returned, withdrawn>>

\* The submission of M is confirmed: M is still stored, or already settled.
Promise(M) ==
    /\ M \subseteq stored \cup Settled
    /\ promised' = promised \cup M
    /\ UNCHANGED <<stored, delivered, returned, withdrawn>>

\* A failure is reported by new mail, which is promised like any other.
ReturnToSender(m, report) ==
    /\ returned' = returned \cup {m}
    /\ promised' = promised \cup report
    /\ report \subseteq stored
    /\ UNCHANGED <<stored, delivered, withdrawn>>

HandOver(m) ==
    /\ delivered' = delivered \cup {m}
    /\ UNCHANGED <<stored, promised, returned, withdrawn>>

Withdraw(M) ==
    /\ withdrawn' = withdrawn \cup M
    /\ UNCHANGED <<stored, promised, delivered, returned>>

\* Mail leaves the store: settled mail, or mail nobody was promised anything
\* about.  The same step may note failures and withdrawals.
Discard(M) ==
    /\ stored' = stored \ M
    /\ UNCHANGED <<promised, delivered>>
    /\ returned \subseteq returned' /\ withdrawn \subseteq withdrawn'
    /\ M \cap promised \subseteq Settled'

Next ==
    \/ \E m \in Mail :
          \/ Submit(m) \/ HandOver(m)
          \/ \E report \in {{}} \cup {{n} : n \in Mail} : ReturnToSender(m, report)
    \/ \E M \in SUBSET Mail : Promise(M) \/ Withdraw(M) \/ Discard(M)

Spec == Init /\ [][Next]_mailVars
=============================================================================
