------------------------------ MODULE MCDeposits ------------------------------
(***************************************************************************)
(* Small instances of Deposits for TLC: the second and the third deposit   *)
(* share a block, and their memos name no user.                            *)
(***************************************************************************)
EXTENDS Deposits, TLC

CONSTANTS u1, u2, unclaimed, t1, t2, t3

MCChain == << t1, t2, t3 >>
MCHeight == t1 :> 1 @@ t2 :> 2 @@ t3 :> 2
MCMemo == t1 :> u1 @@ t2 :> unclaimed @@ t3 :> unclaimed
MCChain2 == << t1, t2 >>
MCHeight2 == t1 :> 1 @@ t2 :> 2
MCMemo2 == t1 :> u1 @@ t2 :> unclaimed

MCAll == {"verify", "process", "claim"}
MCVerify == {"verify"}

=============================================================================
