--------------------------------- MODULE EthTx ---------------------------------
(***************************************************************************)
(* Sending an Ethernet frame: low_level_output (ethernetif.c), the HAL's   *)
(* HAL_ETH_Transmit with the ring of transmit descriptors, and the DMA.    *)
(*                                                                         *)
(* The main loop sends from inside MX_LWIP_Process; the handler EXTI1      *)
(* sends a datagram of samples with every block of I/Q data, through the   *)
(* same function and the same TxConfig, at any moment.  A frame is one     *)
(* buffer here and takes one descriptor.                                   *)
(***************************************************************************)
EXTENDS Integers, Sequences, FiniteSets

CONSTANTS
  ETH_TX_DESC_CNT,   \* descriptors in the ring
  FRAMES,            \* identities of frames
  NOFRAME

ASSUME EthTxAssumption ==
  /\ ETH_TX_DESC_CNT \in Nat \ {0}
  /\ FRAMES # {} /\ NOFRAME \notin FRAMES

VARIABLES
  desc,                  \* the ring: OWN bit, buffer address, frame length
  CurTxDesc,
  TxConfig,              \* global in ethernetif.c
  pc, frame,             \* the main loop: where it is, what it sends
  descidx, txbuffer,     \* its locals in ETH_Prepare_Tx_Descriptors, the first
                         \* also the index loaded for the tail pointer
  dma, tail, running,    \* the DMA: next descriptor, tail pointer
  calm,                  \* history: has no interrupt come at a bad moment?
  accepted               \* history: frames accepted and not yet sent

ring == <<desc, CurTxDesc>>
engine == <<dma, tail, running>>
locals == <<frame, descidx, txbuffer>>
eth_vars == <<ring, TxConfig, pc, locals, engine, calm, accepted>>

Index == 0 .. ETH_TX_DESC_CNT - 1
INCR_TX_DESC_INDEX(i, offset) ==
  IF i + offset >= ETH_TX_DESC_CNT THEN i + offset - ETH_TX_DESC_CNT ELSE i + offset

\* What a descriptor holds that has been sent is no frame's any more.
Unused == [own |-> FALSE, buf |-> NOFRAME, len |-> NOFRAME]

(* The name of a new frame: one nothing refers to.  Once an interrupt has  *)
(* come at a bad moment, frames are no longer told apart.                  *)
Used ==
  {desc[i].buf : i \in Index} \cup {desc[i].len : i \in Index}
  \cup {TxConfig.Length, TxConfig.TxBuffer, frame, txbuffer}
Nameable == calm => FRAMES \ Used # {}
NewFrame == IF calm THEN CHOOSE f \in FRAMES \ Used : TRUE
                    ELSE CHOOSE f \in FRAMES : TRUE

-----------------------------------------------------------------------------

EthInit ==
  /\ desc = [i \in Index |-> Unused]
  /\ CurTxDesc = 0
  /\ TxConfig = [Length |-> NOFRAME, TxBuffer |-> NOFRAME]
  /\ pc = "idle" /\ frame = NOFRAME
  /\ descidx = 0 /\ txbuffer = NOFRAME
  /\ dma = 0 /\ tail = 0 /\ running = FALSE
  /\ calm = TRUE /\ accepted = <<>>

Goto(from, to) == pc = from /\ pc' = to

\* The stack of the main loop hands a frame to low_level_output.
Begin ==
  /\ Goto("idle", "Length")
  /\ Nameable /\ frame' = NewFrame
  /\ UNCHANGED <<ring, TxConfig, descidx, txbuffer, engine, calm, accepted>>

SetLength ==
  /\ Goto("Length", "TxBuffer")
  /\ TxConfig' = [TxConfig EXCEPT !.Length = frame]
  /\ UNCHANGED <<ring, locals, engine, calm, accepted>>

\* Then the data cache is cleaned, all of it.
SetTxBuffer ==
  /\ Goto("TxBuffer", "prepare")
  /\ TxConfig' = [TxConfig EXCEPT !.TxBuffer = frame]
  /\ UNCHANGED <<ring, locals, engine, calm, accepted>>

\* Mutant: the test is of the descriptor after the current one.
Busy_LooksAhead ==
  /\ Goto("prepare", "returned")
  /\ desc[INCR_TX_DESC_INDEX(CurTxDesc, 1)].own
  /\ UNCHANGED <<ring, TxConfig, locals, engine, calm, accepted>>

\* HAL_ETH_ERROR_BUSY: the frame is dropped, low_level_output returns ERR_OK.
Busy ==
  /\ Goto("prepare", "returned")
  /\ desc[CurTxDesc].own
  /\ UNCHANGED <<ring, TxConfig, locals, engine, calm, accepted>>

\* Mutant: OWN is not tested.
Prepare_Unchecked ==
  /\ Goto("prepare", "DESC0")
  /\ descidx' = CurTxDesc
  /\ txbuffer' = TxConfig.TxBuffer
  /\ UNCHANGED <<ring, TxConfig, frame, engine, calm, accepted>>

(* The descriptor is free: ETH_Prepare_Tx_Descriptors goes on with its     *)
(* locals.                                                                 *)
Prepare ==
  /\ Goto("prepare", "DESC0")
  /\ ~desc[CurTxDesc].own
  /\ descidx' = CurTxDesc
  /\ txbuffer' = TxConfig.TxBuffer
  /\ UNCHANGED <<ring, TxConfig, frame, engine, calm, accepted>>

\* DESC0, and DESC2 with the buffer's length.
WriteAddress ==
  /\ Goto("DESC0", "DESC3")
  /\ desc' = [desc EXCEPT ![descidx].buf = txbuffer]
  /\ UNCHANGED <<CurTxDesc, TxConfig, locals, engine, calm, accepted>>

\* The frame length and the OWN bit.
WriteOwn ==
  /\ Goto("DESC3", "index")
  /\ desc' = [desc EXCEPT ![descidx].len = TxConfig.Length, ![descidx].own = TRUE]
  /\ accepted' = IF calm THEN Append(accepted, frame) ELSE <<>>
  /\ UNCHANGED <<CurTxDesc, TxConfig, locals, engine, calm>>

StoreIndex ==
  /\ Goto("index", "advance")
  /\ CurTxDesc' = descidx
  /\ UNCHANGED <<desc, TxConfig, locals, engine, calm, accepted>>

\* Mutant: the index does not wrap.
Advance_NoWrap ==
  /\ Goto("advance", "poll")
  /\ CurTxDesc' = CurTxDesc + 1
  /\ UNCHANGED <<desc, TxConfig, locals, engine, calm, accepted>>

Advance ==
  /\ Goto("advance", "poll")
  /\ CurTxDesc' = INCR_TX_DESC_INDEX(CurTxDesc, 1)
  /\ UNCHANGED <<desc, TxConfig, locals, engine, calm, accepted>>

\* The index for the tail pointer, which may already be another's.
LoadTail ==
  /\ Goto("poll", "tail")
  /\ descidx' = CurTxDesc
  /\ UNCHANGED <<ring, TxConfig, frame, txbuffer, engine, calm, accepted>>

(* DMACTDTPR.  With its timeout of zero the wait that follows ends at      *)
(* once, whether the frame has been sent or not.                           *)
Poll ==
  /\ Goto("tail", "returned")
  /\ tail' = descidx
  /\ running' = TRUE
  /\ UNCHANGED <<ring, TxConfig, locals, dma, calm, accepted>>

\* The caller frees the buffer.
Return ==
  /\ Goto("returned", "idle")
  /\ frame' = NOFRAME /\ txbuffer' = NOFRAME
  /\ UNCHANGED <<ring, TxConfig, descidx, engine, calm, accepted>>

HAL_ETH_Transmit == Busy \/ Prepare \/ WriteAddress \/ WriteOwn
                    \/ StoreIndex \/ Advance \/ LoadTail \/ Poll
low_level_output == SetLength \/ SetTxBuffer \/ HAL_ETH_Transmit \/ Return
Main == Begin \/ low_level_output

\* Where an interrupt spoils the transmission it preempts.
BadMoments == {"TxBuffer", "prepare", "DESC0", "DESC3", "index", "advance"}

\* Mutant: the interrupt leaves the tail pointer alone.
EXTI1_IRQHandler_NoPoll ==
  /\ calm' = (calm /\ pc \notin BadMoments)
  /\ Nameable
  /\ LET f == NewFrame IN
       /\ TxConfig' = [Length |-> f, TxBuffer |-> f]
       /\ IF desc[CurTxDesc].own
            THEN UNCHANGED <<ring, tail, running, accepted>>
            ELSE /\ desc' = [desc EXCEPT ![CurTxDesc] =
                               [own |-> TRUE, buf |-> f, len |-> f]]
                 /\ CurTxDesc' = INCR_TX_DESC_INDEX(CurTxDesc, 1)
                 /\ UNCHANGED <<tail, running>>
                 /\ accepted' = IF calm' THEN Append(accepted, f) ELSE <<>>
  /\ UNCHANGED <<pc, locals, dma>>

(* EXTI1: process_incoming_rf or udp_send_response_iq900, from the         *)
(* allocation of a buffer to its release.  Nothing preempts it but EXTI0,  *)
(* which does not send.                                                    *)
EXTI1_IRQHandler ==
  /\ calm' = (calm /\ pc \notin BadMoments)
  /\ Nameable
  /\ LET f == NewFrame IN
       /\ TxConfig' = [Length |-> f, TxBuffer |-> f]
       /\ IF desc[CurTxDesc].own
            THEN UNCHANGED <<ring, tail, running, accepted>>
            ELSE /\ desc' = [desc EXCEPT ![CurTxDesc] =
                               [own |-> TRUE, buf |-> f, len |-> f]]
                 /\ CurTxDesc' = INCR_TX_DESC_INDEX(CurTxDesc, 1)
                 /\ tail' = CurTxDesc'
                 /\ running' = TRUE
                 /\ accepted' = IF calm' THEN Append(accepted, f) ELSE <<>>
  /\ UNCHANGED <<pc, locals, dma>>

(* The DMA sends the descriptors it owns until it reaches the tail pointer *)
(* or one it does not own, and then waits for the next write of the tail.  *)
DmaSend ==
  /\ running /\ desc[dma].own
  /\ desc' = [desc EXCEPT ![dma] = Unused]
  /\ dma' = INCR_TX_DESC_INDEX(dma, 1)
  /\ running' = (dma' # tail)
  /\ accepted' = IF calm THEN Tail(accepted) ELSE <<>>
  /\ UNCHANGED <<CurTxDesc, TxConfig, pc, locals, tail, calm>>

DmaSuspend ==
  /\ running /\ ~desc[dma].own
  /\ running' = FALSE
  /\ UNCHANGED <<ring, TxConfig, pc, locals, dma, tail, calm, accepted>>

EthNext == Main \/ EXTI1_IRQHandler \/ DmaSend \/ DmaSuspend

EthFairness == WF_eth_vars(low_level_output) /\ WF_eth_vars(DmaSend \/ DmaSuspend)

EthSpec == EthInit /\ [][EthNext]_eth_vars /\ EthFairness

-----------------------------------------------------------------------------

Names == FRAMES \cup {NOFRAME}

(* Types: CurTxDesc and the DMA stay inside the ring.                      *)
EthTypeOK ==
  /\ desc \in [Index -> [own : BOOLEAN, buf : Names, len : Names]]
  /\ CurTxDesc \in Index /\ descidx \in Index
  /\ TxConfig \in [Length : Names, TxBuffer : Names]
  /\ pc \in {"idle", "Length", "TxBuffer", "prepare", "DESC0", "DESC3",
             "index", "advance", "poll", "tail", "returned"}
  /\ frame \in Names /\ txbuffer \in Names
  /\ pc # "idle" => frame \in FRAMES
  /\ dma \in Index /\ tail \in Index
  /\ running \in BOOLEAN
  /\ calm \in BOOLEAN
  /\ accepted \in Seq(FRAMES)

\* The place in the ring of the k-th descriptor, counted from the DMA's.
Place(k) == INCR_TX_DESC_INDEX(dma, k - 1)

(* As long as no interrupt has come between the main loop's store to       *)
(* TxConfig and its advance of CurTxDesc, the DMA owns exactly the frames  *)
(* that were accepted, whole and in the order in which the two contexts    *)
(* passed them: none is lost, sent twice, or sent with another's length.   *)
InTurn ==
  calm => /\ Len(accepted) <= ETH_TX_DESC_CNT
          /\ \A k \in 1 .. ETH_TX_DESC_CNT :
                desc[Place(k)].own <=> k <= Len(accepted)
          /\ \A k \in 1 .. Len(accepted) :
                desc[Place(k)].buf = accepted[k] /\ desc[Place(k)].len = accepted[k]

Refuses == Busy \/ (EXTI1_IRQHandler /\ desc[CurTxDesc].own)

(* Until then, a frame is refused only when as many wait as there are      *)
(* descriptors (HAL_ETH_ERROR_BUSY).                                       *)
RefusedWhenFull ==
  [][Refuses /\ calm' => Len(accepted) = ETH_TX_DESC_CNT]_eth_vars

(* And until then the DMA does not come to a stand, as long as blocks of   *)
(* I/Q data go on coming: a frame that finds the ring full, or the DMA     *)
(* waiting, does not leave it so.                                          *)
GoesOnWhileCalm ==
  []calm /\ []<><<EXTI1_IRQHandler>>_eth_vars => []<><<DmaSend>>_eth_vars
=============================================================================
