---------------------------- MODULE MCSmtpServer ----------------------------
EXTENDS SmtpServer, TLC

\* A filter for users' messages that are refused when it fails, before one for all
\* that are let pass then; and one for the others, without a valid default action.
Tables ==
    {<<[for |-> {TRUE}, default |-> "refuse"], [for |-> BOOLEAN, default |-> "accept"]>>,
     <<[for |-> {FALSE}, default |-> "none"]>>}

Symmetry == Permutations(SmtpSessions)
=============================================================================
