--------------------------- MODULE MCTransactions ---------------------------
(***************************************************************************)
(* Transactions for TLC.                                                    *)
(***************************************************************************)
EXTENDS Transactions

AllCalls   == Services \X (1 .. MaxBlocks) \X Members
AllEntries == 0 .. MaxBlocks
EntryOfAll == [c \in AllCalls |-> IF c[1] = "BlockBuilder" THEN 0 ELSE c[2]]
MemberOf   == [c \in AllCalls |-> c[3]]

=============================================================================
