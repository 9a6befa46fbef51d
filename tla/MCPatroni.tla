----------------------------- MODULE MCPatroni -----------------------------
EXTENDS Patroni

CONSTANTS m1, m2, gone

Ask(kind, name, later) == [kind |-> kind, name |-> name, later |-> later]

\* One operation of every kind, and of those that move the leader both forms.
MCOps ==
  {Ask("switchover", None, FALSE), Ask("switchover", m2, FALSE), Ask("switchover", None, TRUE)}
    \cup {Ask("failover", m2, FALSE), Ask("cancel_switchover", None, FALSE),
          Ask("pause", None, FALSE), Ask("restart", m1, TRUE),
          Ask("cancel_restart", m1, FALSE), Ask("reinitialize", m1, FALSE),
          Ask("reload", gone, FALSE)}

OneOperator == [r \in Req |-> CHOOSE u \in User : TRUE]

\* Requests do not differ: a request ends if this one does.
RequestEnds == RequestsEnd(CHOOSE r \in Req : TRUE)
=============================================================================
