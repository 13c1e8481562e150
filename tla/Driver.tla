------------------------------- MODULE Driver -------------------------------
(***************************************************************************)
(* The main program of src/src/consensus/main.cpp: one consensus thread,    *)
(* that of nodeKeys[0], which the main thread feeds with blocks and with    *)
(* the genesis vertices before it reads what comes out.  Nothing reads      *)
(* vertexToBroadcast.                                                       *)
(***************************************************************************)
EXTENDS ConsensusLoop

CONSTANT NumBlocks     \* blocks that main sends (5 in main.cpp:43)

VARIABLES
  main,      \* where the main thread is
  sent       \* what it has sent in the loop it is in

vars == <<pc, buffer, channels, blocksToPropose, state, main, sent>>

Init == LoopInit /\ main = "blocks" /\ sent = 0

\* Lines 43-51
SendBlock ==
  /\ main = "blocks"
  /\ \/ /\ sent < NumBlocks
        /\ blocksReceiver' = [blocksReceiver EXCEPT ![0] = Append(@, sent + 1)]
        /\ sent' = sent + 1
        /\ UNCHANGED main
     \/ /\ sent = NumBlocks
        /\ main' = "vertices" /\ sent' = 0
        /\ UNCHANGED blocksReceiver
  /\ UNCHANGED <<pc, buffer, vertexReceiver, vertexToBroadcast, vertexOutput,
                 blocksToPropose, state>>

\* Lines 55-58
SendVertex ==
  /\ main = "vertices"
  /\ \/ /\ sent < N
        /\ vertexReceiver' = [vertexReceiver EXCEPT ![0] =
                                Append(@, [owner |-> sent, round |-> 1, parents |-> {}])]
        /\ sent' = sent + 1
        /\ UNCHANGED main
     \/ /\ sent = N
        /\ main' = "output" /\ sent' = 0
        /\ UNCHANGED vertexReceiver
  /\ UNCHANGED <<pc, buffer, blocksReceiver, vertexToBroadcast, vertexOutput,
                 blocksToPropose, state>>

\* Lines 66-71
ReceiveOutput ==
  /\ main = "output"
  /\ \/ /\ vertexOutput[0] # <<>>
        /\ vertexOutput' = [vertexOutput EXCEPT ![0] = Tail(@)]
        /\ UNCHANGED main
     \/ /\ vertexOutput[0] = <<>> /\ ~ BlockingReceive
        /\ main' = "finished"
        /\ UNCHANGED vertexOutput
  /\ UNCHANGED <<pc, buffer, vertexReceiver, blocksReceiver, vertexToBroadcast,
                 blocksToPropose, state, sent>>

MainStep == SendBlock \/ SendVertex \/ ReceiveOutput

Thread == ThreadStep(0) /\ UNCHANGED <<main, sent>>

Next == MainStep \/ Thread

Spec == Init /\ [][Next]_vars

\* Both threads are scheduled.
FairSpec == Spec /\ WF_vars(MainStep) /\ WF_vars(Thread)

-----------------------------------------------------------------------------

\* The blocks that main sends "to the consensus algorithm" (main.cpp:44) get
\* there: the consensus thread takes them all from its channel.
BlocksReachConsensus == (main # "blocks") ~> (blocksReceiver[0] = <<>>)

=============================================================================
