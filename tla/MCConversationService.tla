----------------------- MODULE MCConversationService -----------------------
(***************************************************************************)
(* ConversationService on a few requests of any kind at once.              *)
(***************************************************************************)
EXTENDS ConversationService, TLC

(* The requests differ only in what they ask, which Init chooses.          *)
AnyOrder == Permutations(Requests)

=============================================================================
