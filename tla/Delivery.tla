------------------------------ MODULE Delivery ------------------------------
(***************************************************************************)
(* The two ways out of the queue: MSGQueue::WorkProcessor hands an item to *)
(* ProcessInbound or ProcessOutbound by its type.  They have nothing in    *)
(* common but the thread that runs them, and neither waits for the other,  *)
(* so a behaviour is one of deliveries of one kind.                        *)
(***************************************************************************)
EXTENDS SmtpClient, InboundPipe

CONSTANT Kinds \* types of the items in the queue

ASSUME KindsAssumption == Kinds \subseteq {"inbound", "outbound"}

VARIABLE kind

vars == <<kind, smtpVars, pipeVars>>

Init ==
    /\ kind \in Kinds /\ SmtpInit /\ PipeInit
    /\ kind = "outbound" => keepAlive \* what only inbound delivery reads

\* The switch on item->type.
Next ==
    \/ kind = "outbound" /\ SmtpNext /\ UNCHANGED <<kind, pipeVars>>
    \/ kind = "inbound" /\ PipeNext /\ UNCHANGED <<kind, smtpVars>>

Spec == Init /\ [][Next]_vars /\ PipeFairness
=============================================================================
