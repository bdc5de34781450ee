----------------------------- MODULE MCRecovery -----------------------------
(***************************************************************************)
(* Recovery with one send, and one more request: another reply, or one of  *)
(* the two ways to delete.                                                 *)
(***************************************************************************)
EXTENDS Recovery, TLC

CONSTANT Sender

MCInit ==
    /\ RecoveryInit
    /\ kind[Sender] = "send"
    /\ \A r \in Requests \ {Sender} :
           kind[r] \in {"regenerate", "deleteMessage", "deleteConversation"}

MCSpec == MCInit /\ [][RecoveryNext]_vars /\ WF_vars(Recover)

=============================================================================
