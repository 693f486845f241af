---------------------------- MODULE VoicePathProofs ----------------------------
(***************************************************************************)
(* VoicePath implements VoiceChannel, for every size of ring and FIFO and  *)
(* every length of frame.  What the two components keep to themselves is   *)
(* taken from their own proofs.                                            *)
(***************************************************************************)
EXTENDS VoicePath, TLAPS

RP == INSTANCE AudioRingProofs WITH FILL <- HALF
FP == INSTANCE AudioFifoProofs

(* The tag i words after another.                                          *)
Later(t, i) == IF t + i < TAGS THEN t + i ELSE t + i - TAGS

(* The words of the refill under way that are not sent yet; and those that *)
(* will be played after the present one until all of them are.             *)
Coming == IF isr = "idle" THEN 0 ELSE IF isr = "data" THEN HALF - vi ELSE HALF - vi - 1
Ahead == FP!Dist(bram_raddr) - 1 + Coming

(* turn counts the samples heard when each of those words has been played: *)
(* it goes from those heard now to all that were taken from the ring, and  *)
(* a word that is not silence is the sample whose turn it is, or slurred.  *)
Turns(turn) ==
  /\ turn[0] = heard /\ turn[Ahead] = read
  /\ \A i \in 0 .. Ahead : turn[i] <= read
  /\ \A i \in 1 .. Ahead :
       \/ word[Later(played, i)] = SILENCE /\ turn[i] = turn[i - 1]
       \/ /\ word[Later(played, i)] # SILENCE /\ turn[i] = turn[i - 1] + 1
          /\ word[Later(played, i)] = turn[i] \/ turn[i] \in slurred

(* Before the FIFO has played a word that was sent, all of them are silent.*)
Quiet ==
  played = F!JUNK =>
    /\ ~is_playing
    /\ read = 0 /\ heard = 0
    /\ \A t \in F!Tags : word[t] = SILENCE

InTurn ==
  R!intact /\ played # F!JUNK => \E turn \in [0 .. Ahead -> Nat] : Turns(turn)

PathInv == RP!IInv /\ FP!IInv /\ Quiet /\ InTurn

-----------------------------------------------------------------------------
(* The steps of the two components are those their proofs are about.       *)

LEMMA RingAssumed == RP!RingAssumption
BY PathAssumption

LEMMA FifoAssumed == FP!FifoAssumption
BY PathAssumption

LEMMA SameMainLoop == R!MainLoop => RP!MainLoop
BY DEF R!MainLoop, RP!MainLoop, R!StoreThenBump, RP!StoreThenBump, R!BumpAfterStore,
       RP!BumpAfterStore, R!Bump, RP!Bump, R!BumpBeforeStore, RP!BumpBeforeStore,
       R!LateStore, RP!LateStore, R!MaskEnd, RP!MaskEnd, R!Mask, RP!Mask

LEMMA SameFill == R!Fill => RP!Fill
BY DEF R!Fill, RP!Fill, R!Takes, RP!Takes, R!Silent, RP!Silent, R!Mask, RP!Mask

LEMMA SameFifo ==
  /\ F!Play => FP!Play
  /\ F!EXTI0_IRQHandler \/ F!WriteData \/ F!WriteAddress => FP!Refill
<1>1. F!Play => FP!Play
  BY Zenon DEF F!Play, FP!Play, F!A0, FP!A0, F!SIZE, FP!SIZE, F!Refilling, FP!Refilling
<1>2. F!EXTI0_IRQHandler \/ F!WriteData \/ F!WriteAddress => FP!Refill
  BY DEF FP!Refill, F!EXTI0_IRQHandler, FP!EXTI0_IRQHandler, F!WriteData, FP!WriteData,
         F!WriteAddress, FP!WriteAddress, F!A0, FP!A0, F!SIZE, FP!SIZE, F!Succ, FP!Succ
<1> QED
  BY <1>1, <1>2

LEMMA RingStep ==
  RP!IInv /\ (Decoder \/ R!Fill \/ UNCHANGED ring) => RP!IInv'
<1> SUFFICES ASSUME RP!IInv, Decoder \/ R!Fill \/ UNCHANGED ring PROVE [RP!Next]_(RP!vars)
  BY RP!Step, RingAssumed
<1>1. CASE Decoder
  <2>1. ASSUME NEW n \in FRAMES, R!Frame(n) PROVE RP!Frame(n)
    BY <2>1 DEF R!Frame, RP!Frame, R!XorReaches, RP!XorReaches
  <2>2. R!EndOfCall => RP!EndOfCall
    BY DEF R!EndOfCall, RP!EndOfCall
  <2>3. ASSUME NEW on \in BOOLEAN, R!SetAudio(on) PROVE RP!SetAudio(on)
    BY <2>3 DEF R!SetAudio, RP!SetAudio
  <2> QED
    BY <1>1, <2>1, <2>2, <2>3, SameMainLoop DEF Decoder, RP!Next
<1>2. CASE R!Fill
  BY <1>2, SameFill DEF RP!Next
<1>3. CASE UNCHANGED ring
  BY <1>3 DEF ring, RP!vars
<1> QED
  BY <1>1, <1>2, <1>3

LEMMA FifoStep ==
  FP!IInv /\ (F!Play \/ F!EXTI0_IRQHandler \/ F!WriteData \/ F!WriteAddress
              \/ UNCHANGED fifo) => FP!IInv'
<1>1. UNCHANGED fifo => UNCHANGED FP!vars
  BY DEF fifo, FP!vars
<1> QED
  BY <1>1, SameFifo, FP!Step, FifoAssumed DEF FP!Next

-----------------------------------------------------------------------------
(* Tags.                                                                   *)

LEMMA Below == ASSUME NEW m \in Nat \ {0}, NEW n \in 0 .. m - 1 PROVE n % m = n
OBVIOUS

LEMMA Above == ASSUME NEW m \in Nat \ {0}, NEW n \in m .. 2 * m - 1 PROVE n % m = n - m
OBVIOUS

LEMMA Under == ASSUME NEW m \in Nat \ {0}, NEW n \in -m .. -1 PROVE n % m = n + m
OBVIOUS

LEMMA Gap ==
  ASSUME NEW s \in F!Tags, NEW i \in 0 .. TAGS - 1
  PROVE  Later(s, i) \in F!Tags /\ (Later(s, i) - s) % TAGS = i
<1>1. TAGS \in Nat \ {0} /\ s \in 0 .. TAGS - 1
  BY PathAssumption DEF F!FifoAssumption, F!Tags
<1>2. s + i < TAGS => Later(s, i) - s = i /\ (Later(s, i) - s) % TAGS = i
  BY <1>1, Below DEF Later
<1>3. s + i >= TAGS =>
        Later(s, i) - s = i - TAGS /\ (Later(s, i) - s) % TAGS = i
  BY <1>1, Under DEF Later
<1>4. s + i < TAGS \/ s + i >= TAGS
  BY <1>1
<1> QED
  BY <1>1, <1>2, <1>3, <1>4 DEF Later, F!Tags

LEMMA NextTag == ASSUME NEW t \in 0 .. TAGS - 1 PROVE (t + 1) % TAGS = Later(t, 1)
<1>1. TAGS \in Nat \ {0}
  BY PathAssumption DEF F!FifoAssumption
<1>2. t + 1 < TAGS => (t + 1) % TAGS = t + 1
  BY <1>1, Below
<1>3. t + 1 = TAGS => (t + 1) % TAGS = 0
  BY <1>1, Above
<1> QED
  BY <1>1, <1>2, <1>3 DEF Later

(* Where the word being played is among those of the FIFO.                 *)
Placed ==
  /\ Coming \in 0 .. HALF /\ sent \in 0 .. TAGS - 1
  /\ played # F!JUNK =>
       /\ FP!Dist(bram_raddr) \in 1 .. 2 * HALF
       /\ played \in 0 .. TAGS - 1 /\ played = FP!Tag(sent, FP!Dist(bram_raddr))

LEMMA Place == FP!IInv => Placed
<1> SUFFICES ASSUME FP!IInv PROVE Placed
  OBVIOUS
<1> USE PathAssumption DEF F!FifoAssumption, FP!IInv, FP!TypeOK, F!SIZE, FP!SIZE, F!Words,
                           FP!Words, F!Tags, FP!Tags, F!JUNK, FP!JUNK
<1>1. Coming \in 0 .. HALF
  BY DEF Coming, FP!Control
<1>2. sent \in 0 .. TAGS - 1
  OBVIOUS
<1>3. FP!Store \in FP!Words
  BY DEF FP!Store, FP!Control, FP!Base, FP!A0
<1>4. FP!Dist(bram_raddr) \in 1 .. 2 * HALF
  BY <1>3 DEF FP!Dist
<1>5. ASSUME played # F!JUNK
      PROVE  played \in 0 .. TAGS - 1 /\ played = FP!Tag(sent, FP!Dist(bram_raddr))
  BY <1>5 DEF FP!Sounding, FP!TagAt
<1> QED
  BY <1>1, <1>2, <1>4, <1>5 DEF Placed

LEMMA PlaceNext == FP!IInv' => Placed'
BY Place, PTL

(* What the steps of the FIFO make of the words ahead.                     *)
LEMMA AheadPlays ==
  ASSUME FP!IInv, FP!IInv', F!Play, played # F!JUNK
  PROVE  /\ Ahead \in Nat \ {0} /\ Ahead' = Ahead - 1
         /\ played' = Later(played, 1) /\ played' # F!JUNK
<1> USE PathAssumption DEF F!FifoAssumption, F!SIZE, F!Tags, F!JUNK, FP!JUNK
<1>1. played' = FP!Succ(played)
  BY SameFifo, FP!PlaysNext, FifoAssumed
<1>2. /\ played \in 0 .. TAGS - 1 /\ sent \in 0 .. TAGS - 1
      /\ FP!Dist(bram_raddr) \in 1 .. 2 * HALF /\ Coming \in 0 .. HALF
      /\ played = FP!Tag(sent, FP!Dist(bram_raddr))
  BY Place DEF Placed
<1>3. played' = Later(played, 1) /\ played' \in 0 .. TAGS - 1
  <2>1. played' = Later(played, 1)
    BY <1>1, <1>2, NextTag DEF FP!Succ
  <2> QED
    BY <1>2, <2>1 DEF Later
<1>4. sent' = sent /\ Coming' = Coming
  BY DEF F!Play, Coming
<1>5. /\ FP!Dist(bram_raddr)' \in 1 .. 2 * HALF
      /\ played' = FP!Tag(sent', FP!Dist(bram_raddr)')
  BY <1>3, PlaceNext DEF Placed
<1>6. FP!Dist(bram_raddr)' = FP!Dist(bram_raddr) - 1
  BY <1>2, <1>3, <1>4, <1>5 DEF FP!Tag, Later
<1> QED
  BY <1>2, <1>3, <1>4, <1>5, <1>6 DEF Ahead

LEMMA AheadRefills ==
  ASSUME FP!IInv, FP!IInv', F!WriteData \/ F!WriteAddress, played # F!JUNK
  PROVE  Ahead' = Ahead
<1> USE PathAssumption DEF F!FifoAssumption, F!SIZE, F!Tags, F!JUNK, FP!JUNK
<1>1. /\ played \in 0 .. TAGS - 1 /\ sent \in 0 .. TAGS - 1 /\ played' = played
      /\ FP!Dist(bram_raddr) \in 1 .. 2 * HALF
      /\ played = FP!Tag(sent, FP!Dist(bram_raddr))
      /\ vi \in 0 .. HALF
  BY Place DEF Placed, F!WriteData, F!WriteAddress, FP!IInv, FP!TypeOK
<1>2. /\ sent' \in 0 .. TAGS - 1
      /\ FP!Dist(bram_raddr)' \in 1 .. 2 * HALF
      /\ played' = FP!Tag(sent', FP!Dist(bram_raddr)')
  BY <1>1, PlaceNext DEF Placed
<1>3. CASE F!WriteData
  <2>1. sent' = IF sent + 1 < TAGS THEN sent + 1 ELSE sent + 1 - TAGS
    BY <1>1, <1>3, NextTag DEF F!WriteData, F!Succ, Later
  <2>2. FP!Dist(bram_raddr)' = FP!Dist(bram_raddr) + 1
    BY <1>1, <1>2, <2>1 DEF FP!Tag
  <2>3. Coming' = Coming - 1 /\ Coming \in Int
    BY <1>1, <1>3 DEF Coming, F!WriteData
  <2> QED
    BY <1>1, <1>2, <2>2, <2>3 DEF Ahead
<1>4. CASE F!WriteAddress
  <2>1. sent' = sent
    BY <1>4 DEF F!WriteAddress
  <2>2. FP!Dist(bram_raddr)' = FP!Dist(bram_raddr)
    BY <1>1, <1>2, <2>1 DEF FP!Tag
  <2>3. Coming' = Coming
    BY <1>1, <1>4 DEF Coming, F!WriteAddress
  <2> QED
    BY <2>2, <2>3 DEF Ahead
<1> QED
  BY <1>3, <1>4

LEMMA AheadInterrupt ==
  ASSUME FP!IInv, FP!IInv', F!EXTI0_IRQHandler, played # F!JUNK
  PROVE  /\ Ahead \in 0 .. 2 * HALF - 1 /\ Ahead' = Ahead + HALF
         /\ played = IF sent >= Ahead THEN sent - Ahead ELSE sent - Ahead + TAGS
<1> USE PathAssumption DEF F!FifoAssumption, F!SIZE, F!Tags, F!JUNK, FP!JUNK
<1>1. /\ played \in 0 .. TAGS - 1 /\ sent \in 0 .. TAGS - 1
      /\ played' = played /\ sent' = sent
      /\ FP!Dist(bram_raddr) \in 1 .. 2 * HALF
      /\ played = FP!Tag(sent, FP!Dist(bram_raddr))
  BY Place DEF Placed, F!EXTI0_IRQHandler
<1>2. /\ FP!Dist(bram_raddr)' \in 1 .. 2 * HALF
      /\ played' = FP!Tag(sent', FP!Dist(bram_raddr)')
  BY <1>1, PlaceNext DEF Placed
<1>3. FP!Dist(bram_raddr)' = FP!Dist(bram_raddr)
  BY <1>1, <1>2 DEF FP!Tag
<1>4. Coming = 0 /\ Coming' = HALF
  BY DEF Coming, F!EXTI0_IRQHandler
<1>5. Ahead = FP!Dist(bram_raddr) - 1 /\ Ahead' = FP!Dist(bram_raddr) - 1 + HALF
  BY <1>1, <1>3, <1>4 DEF Ahead
<1> QED
  BY <1>1, <1>5 DEF FP!Tag

-----------------------------------------------------------------------------
(* Steps that neither play a word nor begin a refill.                      *)

Calm == UNCHANGED <<played, word, heard, slurred, read>>

LEMMA CalmTurns ==
  ASSUME InTurn, Calm, played # F!JUNK => Ahead' = Ahead, R!intact' => R!intact
  PROVE  InTurn'
<1> SUFFICES ASSUME R!intact', played' # F!JUNK
             PROVE  \E turn \in [0 .. Ahead' -> Nat] : Turns(turn)'
  BY DEF InTurn, R!intact, F!JUNK
<1>1. Ahead' = Ahead /\ played # F!JUNK /\ R!intact
  BY DEF Calm
<1>2. PICK turn \in [0 .. Ahead -> Nat] : Turns(turn)
  BY <1>1 DEF InTurn
<1>3. Turns(turn)'
  BY <1>1, <1>2 DEF Turns, Calm
<1> QED
  BY <1>1, <1>2, <1>3

LEMMA SoundStays ==
  ASSUME played' = played, heard' = heard, played # F!JUNK => word'[played] = word[played]
  PROVE  Sound' = Sound
BY DEF Sound, Sounds, F!JUNK

(* The main loop makes a sample, or laps the reader, or does neither.      *)
LEMMA DecoderStep ==
  ASSUME PathInv, Decoder
  PROVE  Quiet' /\ InTurn' /\ [Channel!Next]_(Channel!vars)
<1>1. played # F!JUNK /\ UNCHANGED <<fifo, word, heard, slurred>>
  BY DEF Decoder
<1>2. /\ read' = read
      /\ \/ stream' = "spoiled"
         \/ stream' = stream /\ written' \in {written, written + 1}
  BY DEF Decoder, R!Frame, R!MainLoop, R!EndOfCall, R!SetAudio, R!StoreThenBump,
         R!BumpAfterStore, R!Bump, R!BumpBeforeStore, R!LateStore, R!MaskEnd
<1>3. played' = played
  BY <1>1 DEF fifo
<1>4. Quiet'
  BY <1>1, <1>3 DEF Quiet, F!JUNK
<1>5. Ahead' = Ahead
  BY <1>1 DEF Ahead, Coming, fifo, FP!Dist, FP!Store, FP!SIZE
<1>6. R!intact' => R!intact
  BY <1>2 DEF R!intact
<1>7. InTurn'
  BY <1>1, <1>2, <1>3, <1>5, <1>6, CalmTurns DEF PathInv, Calm
<1>8. Sound' = Sound
  BY <1>1, <1>3, SoundStays
<1>9. [Channel!Next]_(Channel!vars)
  BY <1>1, <1>2, <1>8 DEF Channel!Next, Channel!Spoil, Channel!Speak, Channel!vars
<1> QED
  BY <1>4, <1>7, <1>9

(* The handler's bus writes change what the RAM holds, not what is to come.*)
LEMMA RefillStep ==
  ASSUME PathInv, FP!IInv', Refill
  PROVE  Quiet' /\ InTurn' /\ [Channel!Next]_(Channel!vars)
<1>1. (F!WriteData \/ F!WriteAddress) /\ UNCHANGED <<ring, word, heard, slurred>>
  BY DEF Refill
<1>2. played' = played
  BY <1>1 DEF F!WriteData, F!WriteAddress
<1>3. Quiet'
  BY <1>1, <1>2 DEF PathInv, Quiet, F!JUNK, F!Tags, ring
<1>4. played # F!JUNK => Ahead' = Ahead
  BY <1>1, AheadRefills DEF PathInv
<1>5. InTurn'
  BY <1>1, <1>2, <1>4, CalmTurns DEF PathInv, Calm, ring, R!intact
<1>6. Sound' = Sound
  BY <1>1, <1>2, SoundStays
<1>7. UNCHANGED Channel!vars
  BY <1>1, <1>6 DEF Channel!vars, ring
<1> QED
  BY <1>3, <1>5, <1>7

-----------------------------------------------------------------------------
(* The player moves on: what it plays now was the first of the words ahead.*)

LEMMA LaterStill ==
  ASSUME NEW t \in 0 .. TAGS - 1, NEW i \in 0 .. TAGS - 2
  PROVE  Later(Later(t, 1), i) = Later(t, i + 1)
BY PathAssumption DEF F!FifoAssumption, Later

LEMMA PlayFirst ==
  ASSUME PathInv, FP!IInv', Play, played = F!JUNK
  PROVE  Quiet' /\ InTurn' /\ [Channel!Next]_(Channel!vars)
<1>1. F!Play /\ UNCHANGED <<ring, word, slurred>>
  BY DEF Play
<1>2. read = 0 /\ heard = 0 /\ ~is_playing /\ \A t \in F!Tags : word[t] = SILENCE
  BY DEF PathInv, Quiet
<1>3. played' = F!JUNK \/ played' \in F!Tags
  BY PlaceNext DEF Placed, F!Tags, F!JUNK
<1>4. Sounds(played') = SILENCE
  BY <1>2, <1>3 DEF Sounds
<1>5. heard' = heard
  BY <1>4 DEF Play
<1>6. Sound' = SILENCE /\ Sound = SILENCE
  <2>1. Sounds(played)' = Sounds(played')
    BY <1>1 DEF Sounds, F!JUNK
  <2>2. Sounds(played) = SILENCE
    BY DEF Sounds
  <2> QED
    BY <1>4, <2>1, <2>2 DEF Sound
<1>7. UNCHANGED Channel!vars
  BY <1>1, <1>5, <1>6 DEF Channel!vars, ring
<1>8. Quiet'
  BY <1>1, <1>2, <1>5 DEF Quiet, ring, F!Tags
<1>9. ASSUME played' # F!JUNK
      PROVE  \E turn \in [0 .. Ahead' -> Nat] : Turns(turn)'
  <2>1. Ahead' \in Nat /\ Ahead' < TAGS
    BY <1>3, <1>9, PlaceNext, PathAssumption DEF Ahead, Placed, F!JUNK, F!FifoAssumption
  <2>2. PICK turn \in [0 .. Ahead' -> Nat] : turn = [i \in 0 .. Ahead' |-> 0]
    OBVIOUS
  <2>3. ASSUME NEW i \in 1 .. Ahead' PROVE Later(played', i) \in F!Tags
    <3>1. i \in 0 .. TAGS - 1 /\ played' \in F!Tags
      BY <1>3, <1>9, <2>1, PathAssumption DEF F!FifoAssumption
    <3> QED
      BY <3>1, Gap
  <2>4. Turns(turn)'
    BY <1>1, <1>2, <1>5, <2>1, <2>2, <2>3 DEF Turns, ring
  <2> QED
    BY <2>4
<1> QED
  BY <1>7, <1>8, <1>9 DEF InTurn, F!JUNK

LEMMA PlayNext ==
  ASSUME PathInv, FP!IInv', Play, played # F!JUNK
  PROVE  Quiet' /\ InTurn' /\ [Channel!Next]_(Channel!vars)
<1>1. F!Play /\ UNCHANGED <<ring, word, slurred>>
  BY DEF Play
<1>2. /\ Ahead \in Nat \ {0} /\ Ahead' = Ahead - 1
      /\ played' = Later(played, 1) /\ played' # F!JUNK
  BY <1>1, AheadPlays DEF PathInv
<1>3. Quiet'
  BY <1>2 DEF Quiet, F!JUNK
<1>4. CASE ~R!intact
  <2>1. stream' = "spoiled"
    BY <1>1, <1>4 DEF ring, R!intact, PathInv, RP!IInv, RP!TypeOK
  <2> QED
    BY <1>3, <2>1 DEF InTurn, R!intact, Channel!Next, Channel!Spoil
<1>5. CASE R!intact
  <2>1. PICK turn \in [0 .. Ahead -> Nat] : Turns(turn)
    BY <1>5 DEF PathInv, InTurn
  <2>2. /\ turn[0] = heard /\ turn[1] \in Nat /\ heard \in Nat /\ turn[1] <= read
        /\ \/ word[played'] = SILENCE /\ turn[1] = heard
           \/ /\ word[played'] # SILENCE /\ turn[1] = heard + 1
              /\ word[played'] = turn[1] \/ turn[1] \in slurred
    <3>1. 0 \in 0 .. Ahead /\ 1 \in 0 .. Ahead /\ 1 \in 1 .. Ahead /\ 1 - 1 = 0
      BY <1>2
    <3> QED
      BY <1>2, <2>1, <3>1 DEF Turns
  <2>3. Sounds(played') = word[played'] /\ Sounds(played)' = word[played']
    BY <1>1, <1>2 DEF Sounds, F!JUNK
  <2>4. heard' = turn[1]
    BY <1>5, <2>2, <2>3 DEF Play
  <2>5. InTurn'
    <3>1. Ahead < TAGS /\ TAGS \in Nat /\ played \in 0 .. TAGS - 1
      BY Place, PathAssumption DEF PathInv, Placed, Ahead, F!FifoAssumption
    <3>2. PICK next \in [0 .. Ahead' -> Nat] : next = [i \in 0 .. Ahead' |-> turn[i + 1]]
      <4>1. \A i \in 0 .. Ahead' : i + 1 \in 0 .. Ahead
        BY <1>2
      <4>2. [i \in 0 .. Ahead' |-> turn[i + 1]] \in [0 .. Ahead' -> Nat]
        BY <4>1
      <4> QED
        BY <4>2, Zenon
    <3>3. \A i \in 0 .. Ahead' : i + 1 \in 1 .. Ahead /\ next[i] = turn[i + 1]
      BY <1>2, <3>2
    <3>4. next[0] = heard' /\ next[Ahead'] = read /\ \A i \in 0 .. Ahead' : next[i] <= read
      BY <1>2, <2>1, <2>4, <3>3 DEF Turns
    <3>5. ASSUME NEW i \in 1 .. Ahead'
          PROVE  /\ Later(played', i) = Later(played, i + 1)
                 /\ next[i] = turn[i + 1] /\ next[i - 1] = turn[i]
                 /\ i + 1 \in 1 .. Ahead /\ (i + 1) - 1 = i
      <4>1. i \in 1 .. Ahead - 1
        BY <1>2
      <4>2. /\ i \in 0 .. TAGS - 2 /\ i \in 0 .. Ahead' /\ i - 1 \in 0 .. Ahead'
            /\ (i - 1) + 1 = i
        BY <1>2, <3>1, <4>1
      <4> QED
        BY <1>2, <3>1, <3>3, <4>1, <4>2, LaterStill
    <3>6. \A i \in 1 .. Ahead' :
            \/ word[Later(played', i)] = SILENCE /\ next[i] = next[i - 1]
            \/ /\ word[Later(played', i)] # SILENCE /\ next[i] = next[i - 1] + 1
               /\ word[Later(played', i)] = next[i] \/ next[i] \in slurred
      BY <2>1, <3>5 DEF Turns
    <3>7. Turns(next)'
      BY <1>1, <3>4, <3>6 DEF Turns, ring
    <3> QED
      BY <3>7 DEF InTurn
  <2>6. Channel!Next
    <3>1. CASE word[played'] = SILENCE
      <4>1. Sound' = SILENCE /\ heard' = heard
        BY <2>2, <2>3, <2>4, <3>1 DEF Sound
      <4> QED
        BY <1>1, <4>1 DEF Channel!Next, Channel!Rest, ring
    <3>2. CASE word[played'] # SILENCE
      <4>1. heard' = heard + 1 /\ (word[played'] = heard' \/ heard' \in slurred)
        BY <2>2, <2>4, <3>2
      <4>2. Sound' = heard' \/ (heard' \in slurred /\ Sound' = SLUR)
        BY <2>3, <3>2, <4>1 DEF Sound
      <4>3. heard < written
        BY <1>5, <2>2, <2>4, <4>1
        DEF PathInv, RP!IInv, RP!TypeOK, RP!RingHoldsBacklog, RP!Backlog, RP!intact, R!intact
      <4> QED
        BY <1>1, <4>1, <4>2, <4>3 DEF Channel!Next, Channel!Hear, ring
    <3> QED
      BY <3>1, <3>2
  <2> QED
    BY <1>3, <2>5, <2>6
<1> QED
  BY <1>4, <1>5

-----------------------------------------------------------------------------
(* A refill begins: its words are lined up behind those ahead.             *)

LEMMA TakesOnce ==
  ASSUME NEW j \in 0 .. HALF, NEW k \in 0 .. HALF, R!Takes(j), R!Takes(k)
  PROVE  j = k
<1> USE PathAssumption DEF F!FifoAssumption
<1>1. ASSUME NEW a \in 0 .. HALF, NEW b \in 0 .. HALF, R!Takes(a), R!Takes(b) PROVE ~(a < b)
  <2> SUFFICES ASSUME a < b PROVE FALSE
    OBVIOUS
  <2>1. a # HALF /\ a \in 0 .. b - 1
    OBVIOUS
  <2> QED
    BY <1>1, <2>1 DEF R!Takes
<1>2. ~(j < k) /\ ~(k < j)
  BY <1>1
<1> QED
  BY <1>2

(* The words a refill lines up, seen from the one sent last.               *)
LinedUp(k, t) ==
  LET n == (t - sent) % TAGS
  IN  CASE n \in 1 .. HALF -> Sent(k, n)
        [] n = 0 \/ n > TAGS - F!SIZE -> word[t]
        [] OTHER -> SILENCE

LEMMA Begins ==
  ASSUME PathInv, Interrupt
  PROVE  /\ UNCHANGED <<heard, played, written, is_playing>>
         /\ \E k \in 0 .. HALF :
              /\ R!Takes(k)
              /\ stream' = IF read + k <= written THEN stream ELSE "spoiled"
              /\ read' = IF stream' = "clean" THEN read + k ELSE read
              /\ \A t \in F!Tags : word'[t] = LinedUp(k, t)
              /\ slurred' = IF pc = "late" /\ k > 0 /\ read + k >= written
                              THEN slurred \cup {written} ELSE slurred
<1>1. PICK k \in 0 .. HALF :
        /\ R!Takes(k)
        /\ stream' = IF read + k <= written THEN stream ELSE "spoiled"
        /\ read' = IF stream' = "clean" THEN read + k ELSE read
        /\ UNCHANGED <<written, is_playing>>
  BY DEF Interrupt, R!Fill
<1>2. PICK j \in 0 .. HALF :
        /\ R!Takes(j)
        /\ \A t \in F!Tags : word'[t] = LinedUp(j, t)
        /\ slurred' = IF pc = "late" /\ j > 0 /\ read + j >= written
                        THEN slurred \cup {written} ELSE slurred
  BY DEF Interrupt, LinedUp
<1>3. j = k
  BY <1>1, <1>2, TakesOnce
<1>4. UNCHANGED <<heard, played>>
  BY DEF Interrupt, F!EXTI0_IRQHandler
<1> QED
  BY <1>1, <1>2, <1>3, <1>4

LEMMA InterruptFirst ==
  ASSUME PathInv, Interrupt, played = F!JUNK
  PROVE  Quiet' /\ InTurn' /\ [Channel!Next]_(Channel!vars)
<1>1. PICK k \in 0 .. HALF :
        /\ R!Takes(k)
        /\ stream' = IF read + k <= written THEN stream ELSE "spoiled"
        /\ read' = IF stream' = "clean" THEN read + k ELSE read
        /\ \A t \in F!Tags : word'[t] = LinedUp(k, t)
        /\ slurred' = IF pc = "late" /\ k > 0 /\ read + k >= written
                        THEN slurred \cup {written} ELSE slurred
  BY Begins
<1>2. UNCHANGED <<heard, played, written, is_playing>>
  BY Begins
<1>3. read = 0 /\ heard = 0 /\ ~is_playing /\ \A t \in F!Tags : word[t] = SILENCE
  BY DEF PathInv, Quiet
<1>4. k = 0
  <2> SUFFICES ASSUME k # 0 PROVE FALSE
    OBVIOUS
  <2>1. 0 \in 0 .. k - 1
    BY PathAssumption DEF F!FifoAssumption
  <2> QED
    BY <1>1, <1>3, <2>1 DEF R!Takes, R!Silent
<1>5. read' = 0 /\ slurred' = slurred
  BY <1>1, <1>3, <1>4
<1>6. ASSUME NEW t \in F!Tags PROVE word'[t] = SILENCE
  <2>1. \A n \in 1 .. HALF : Sent(0, n) = SILENCE
    BY PathAssumption DEF F!FifoAssumption, Sent
  <2>2. LinedUp(0, t) = SILENCE
    BY <1>3, <2>1 DEF LinedUp
  <2> QED
    BY <1>1, <1>4, <2>2
<1>7. Sound' = Sound
  BY <1>2, SoundStays
<1>8. stream' = stream => UNCHANGED Channel!vars
  BY <1>2, <1>5, <1>7 DEF Channel!vars
<1>9. stream' = "spoiled" => Channel!Next
  BY DEF Channel!Next, Channel!Spoil
<1>10. Quiet'
  BY <1>2, <1>3, <1>5, <1>6 DEF Quiet, F!JUNK, F!Tags
<1>11. InTurn'
  BY <1>2 DEF InTurn, F!JUNK
<1> QED
  BY <1>1, <1>8, <1>9, <1>10, <1>11

LEMMA InterruptNext ==
  ASSUME PathInv, FP!IInv', Interrupt, played # F!JUNK
  PROVE  Quiet' /\ InTurn' /\ [Channel!Next]_(Channel!vars)
<1>1. PICK k \in 0 .. HALF :
        /\ R!Takes(k)
        /\ stream' = IF read + k <= written THEN stream ELSE "spoiled"
        /\ read' = IF stream' = "clean" THEN read + k ELSE read
        /\ \A t \in F!Tags : word'[t] = LinedUp(k, t)
        /\ slurred' = IF pc = "late" /\ k > 0 /\ read + k >= written
                        THEN slurred \cup {written} ELSE slurred
  BY Begins
<1>2. UNCHANGED <<heard, played, written, is_playing>>
  BY Begins
<1>3. Quiet'
  BY <1>2 DEF Quiet, F!JUNK
<1>4. CASE stream' = "spoiled"
  BY <1>3, <1>4 DEF InTurn, R!intact, Channel!Next, Channel!Spoil
<1>5. CASE stream' # "spoiled"
  <2>1. /\ stream = "clean" /\ stream' = stream /\ read' = read + k /\ read + k <= written
        /\ read \in Nat /\ written \in Nat /\ HALF \in Nat /\ TAGS \in Nat
        /\ TAGS > 4 * HALF
    BY <1>1, <1>5, PathAssumption
    DEF PathInv, RP!IInv, RP!TypeOK, F!FifoAssumption
  <2>2. /\ Ahead \in 0 .. 2 * HALF - 1 /\ Ahead' = Ahead + HALF
        /\ played = IF sent >= Ahead THEN sent - Ahead ELSE sent - Ahead + TAGS
        /\ sent \in F!Tags /\ sent \in 0 .. TAGS - 1
    BY AheadInterrupt, Place DEF PathInv, Interrupt, Placed, F!Tags
  <2>3. ASSUME NEW i \in 0 .. Ahead
        PROVE  Later(played, i) \in F!Tags /\ word'[Later(played, i)] = word[Later(played, i)]
    <3>1. CASE i = Ahead
      <4>1. Later(played, i) = sent
        BY <2>1, <2>2, <3>1 DEF Later
      <4>2. sent = Later(sent, 0) /\ 0 \in 0 .. TAGS - 1
        BY <2>1, <2>2 DEF Later
      <4>3. (sent - sent) % TAGS = 0
        BY <2>2, <4>2, Gap
      <4> QED
        BY <1>1, <2>1, <2>2, <4>1, <4>3 DEF LinedUp
    <3>2. CASE i # Ahead
      <4>1. PICK d \in 1 .. 2 * HALF - 1 : i = Ahead - d
        BY <2>1, <2>2, <3>2
      <4>2. TAGS - d \in 0 .. TAGS - 1 /\ Later(played, i) = Later(sent, TAGS - d)
        BY <2>1, <2>2, <4>1 DEF Later
      <4>3. Later(played, i) \in F!Tags /\ (Later(played, i) - sent) % TAGS = TAGS - d
        BY <2>2, <4>2, Gap
      <4>4. TAGS - d > TAGS - F!SIZE /\ TAGS - d \notin 1 .. HALF
        BY <2>1, <4>1 DEF F!SIZE
      <4> QED
        BY <1>1, <4>3, <4>4 DEF LinedUp
    <3> QED
      BY <3>1, <3>2
  <2>4. ASSUME NEW n \in 1 .. HALF
        PROVE  word'[Later(played, Ahead + n)] = Sent(k, n)
    <3>1. n \in 0 .. TAGS - 1 /\ Later(played, Ahead + n) = Later(sent, n)
      BY <2>1, <2>2 DEF Later
    <3>2. Later(sent, n) \in F!Tags /\ (Later(sent, n) - sent) % TAGS = n
      BY <2>2, <3>1, Gap
    <3>3. n \in 1 .. HALF /\ n # 0 /\ ~(n > TAGS - F!SIZE)
      BY <2>1 DEF F!SIZE
    <3>4. LinedUp(k, Later(sent, n)) = Sent(k, n)
      BY <3>2, <3>3 DEF LinedUp
    <3> QED
      BY <1>1, <3>1, <3>2, <3>4
  <2>5. ASSUME NEW n \in 1 .. HALF
        PROVE  IF n <= k
               THEN /\ Sent(k, n) # SILENCE
                    /\ Sent(k, n) = read + n \/ read + n \in slurred'
               ELSE Sent(k, n) = SILENCE
    <3>1. CASE n <= k
      <4>1. n - 1 \in 0 .. RP!Backlog - 1 /\ read + (n - 1) + 1 = read + n
        BY <2>1, <3>1 DEF RP!Backlog
      <4>2. Sent(k, n) = out_buffer[RP!Mask(out_s + (n - 1))]
        <5>1. out_s + n - 1 = out_s + (n - 1)
          BY DEF PathInv, RP!IInv, RP!TypeOK, RP!Slots
        <5> QED
          BY <3>1, <5>1 DEF Sent, R!Mask, RP!Mask
      <4>3. Sent(k, n) = read + n \/ (pc = "late" /\ read + n = written)
        BY <2>1, <4>1, <4>2 DEF PathInv, RP!IInv, RP!RingHoldsBacklog, RP!intact, RP!Pending
      <4>4. Sent(k, n) \in Nat
        <5>1. RP!Mask(out_s + (n - 1)) \in RP!Slots
          BY <2>1, PathAssumption
          DEF PathInv, RP!IInv, RP!TypeOK, RP!Slots, RP!Mask, R!RingAssumption
        <5> QED
          BY <4>2, <5>1 DEF PathInv, RP!IInv, RP!TypeOK
      <4>5. Sent(k, n) # SILENCE
        BY <4>4 DEF SILENCE
      <4>6. pc = "late" /\ read + n = written => read + n \in slurred'
        BY <1>1, <2>1, <3>1
      <4> QED
        BY <3>1, <4>3, <4>5, <4>6
    <3>2. CASE n > k
      BY <3>2 DEF Sent
    <3> QED
      BY <3>1, <3>2
  <2>6. PICK turn \in [0 .. Ahead -> Nat] : Turns(turn)
    BY <2>1 DEF PathInv, InTurn, R!intact
  <2>7. slurred \subseteq slurred'
    BY <1>1
  <2>8. PICK later : later = Ahead + HALF
    OBVIOUS
  <2>9. PICK next \in [0 .. later -> Nat] :
          next = [i \in 0 .. later |-> IF i <= Ahead THEN turn[i]
                                      ELSE IF i - Ahead <= k THEN read + (i - Ahead) ELSE read + k]
    <3>1. ASSUME NEW i \in 0 .. later
          PROVE  (IF i <= Ahead THEN turn[i]
                  ELSE IF i - Ahead <= k THEN read + (i - Ahead) ELSE read + k) \in Nat
      BY <2>1, <2>2, <2>8
    <3> QED
      BY <3>1, Zenon
  <2>10. ASSUME NEW i \in 0 .. Ahead
         PROVE  i \in 0 .. later /\ next[i] = turn[i] /\ next[i] <= read + k
    BY <2>1, <2>2, <2>6, <2>8, <2>9 DEF Turns
  <2>11. ASSUME NEW n \in 0 .. HALF
         PROVE  Ahead + n \in 0 .. later /\ next[Ahead + n] = IF n <= k THEN read + n ELSE read + k
    <3>1. CASE n = 0
      BY <2>1, <2>2, <2>6, <2>10, <3>1 DEF Turns
    <3>2. CASE n # 0
      BY <2>1, <2>2, <2>8, <2>9, <3>2
    <3> QED
      BY <3>1, <3>2
  <2>12. ASSUME NEW i \in 1 .. later
         PROVE  \/ word'[Later(played, i)] = SILENCE /\ next[i] = next[i - 1]
                \/ /\ word'[Later(played, i)] # SILENCE /\ next[i] = next[i - 1] + 1
                   /\ word'[Later(played, i)] = next[i] \/ next[i] \in slurred'
    <3>1. CASE i <= Ahead
      <4>1. i \in 1 .. Ahead /\ i \in 0 .. Ahead /\ i - 1 \in 0 .. Ahead
        BY <2>2, <3>1
      <4>2. \/ word[Later(played, i)] = SILENCE /\ turn[i] = turn[i - 1]
            \/ /\ word[Later(played, i)] # SILENCE /\ turn[i] = turn[i - 1] + 1
               /\ word[Later(played, i)] = turn[i] \/ turn[i] \in slurred
        BY <2>6, <4>1 DEF Turns
      <4>3. next[i] = turn[i] /\ next[i - 1] = turn[i - 1]
        BY <2>10, <4>1
      <4>4. word'[Later(played, i)] = word[Later(played, i)]
        BY <2>3, <4>1
      <4> QED
        BY <2>7, <4>2, <4>3, <4>4
    <3>2. CASE i > Ahead
      <4>1. PICK n \in 1 .. HALF : i = Ahead + n
        BY <2>1, <2>2, <2>8, <3>2
      <4>2. n - 1 \in 0 .. HALF /\ i - 1 = Ahead + (n - 1)
        BY <2>1, <2>2, <4>1
      <4>3. /\ next[i] = IF n <= k THEN read + n ELSE read + k
            /\ next[i - 1] = IF n - 1 <= k THEN read + (n - 1) ELSE read + k
        BY <2>1, <2>11, <4>1, <4>2
      <4>4. word'[Later(played, i)] = Sent(k, n)
        BY <2>4, <4>1
      <4>5. CASE n <= k
        <5>1. next[i] = read + n /\ next[i] = next[i - 1] + 1
          BY <2>1, <4>3, <4>5
        <5> QED
          BY <2>5, <4>4, <4>5, <5>1
      <4>6. CASE n > k
        <5>1. next[i] = next[i - 1]
          BY <2>1, <4>3, <4>6
        <5> QED
          BY <2>1, <2>5, <4>4, <4>6, <5>1
      <4> QED
        BY <2>1, <4>5, <4>6
    <3> QED
      BY <2>2, <2>8, <3>1, <3>2
  <2>13. next[0] = heard' /\ next[later] = read' /\ \A i \in 0 .. later : next[i] <= read'
    <3>1. next[0] = heard
      BY <2>2, <2>6, <2>10 DEF Turns
    <3>2. next[later] = read + k
      BY <2>1, <2>8, <2>11
    <3>3. ASSUME NEW i \in 0 .. later PROVE next[i] <= read + k
      <4>1. CASE i <= Ahead
        <5>1. i \in 0 .. Ahead
          BY <2>2, <4>1
        <5> QED
          BY <2>10, <5>1
      <4>2. CASE i > Ahead
        <5>1. next[i] = IF i - Ahead <= k THEN read + (i - Ahead) ELSE read + k
          BY <2>2, <2>9, <4>2
        <5> QED
          BY <2>1, <2>2, <2>8, <4>2, <5>1
      <4> QED
        BY <2>2, <2>8, <4>1, <4>2
    <3> QED
      BY <1>2, <2>1, <3>1, <3>2, <3>3
  <2>14. InTurn'
    <3>1. later = Ahead'
      BY <2>2, <2>8
    <3>2. Turns(next)'
      BY <1>2, <2>12, <2>13, <3>1 DEF Turns
    <3> QED
      BY <2>9, <3>1, <3>2 DEF InTurn
  <2>15. [Channel!Next]_(Channel!vars)
    <3>1. Sound' = Sound
      <4>1. Later(played, 0) = played /\ 0 \in 0 .. Ahead
        BY <2>1, <2>2 DEF Later
      <4>2. word'[played] = word[played]
        BY <2>3, <4>1
      <4> QED
        BY <1>2, <4>2, SoundStays
    <3>2. CASE slurred' = slurred
      BY <1>2, <2>1, <3>1, <3>2 DEF Channel!vars
    <3>3. CASE slurred' # slurred
      <4>1. k > 0 /\ slurred' = slurred \cup {written}
        BY <1>1, <3>3
      <4>2. 0 \in 0 .. Ahead /\ heard <= read /\ heard \in Nat
        BY <2>1, <2>2, <2>6 DEF Turns
      <4>3. written > heard
        BY <2>1, <4>1, <4>2
      <4> QED
        BY <1>2, <2>1, <3>1, <4>1, <4>3 DEF Channel!Next, Channel!Slur
    <3> QED
      BY <3>2, <3>3
  <2> QED
    BY <1>3, <2>14, <2>15
<1> QED
  BY <1>1, <1>4, <1>5

-----------------------------------------------------------------------------

LEMMA InitPathInv == Init => PathInv /\ Channel!Init
<1> SUFFICES ASSUME Init PROVE PathInv /\ Channel!Init
  OBVIOUS
<1>1. RP!IInv
  <2>1. RP!Init
    BY DEF Init, R!Init, RP!Init, R!Slots, RP!Slots
  <2> QED
    BY <2>1, RP!InitIInv, RingAssumed
<1>2. FP!IInv
  <2>1. FP!Init
    BY DEF Init, F!Init, FP!Init, F!Words, FP!Words, F!SIZE, FP!SIZE, F!JUNK, FP!JUNK
  <2> QED
    BY <2>1, FP!InitIInv, FifoAssumed
<1>3. played = F!JUNK /\ read = 0 /\ written = 0 /\ heard = 0 /\ ~is_playing /\ stream = "clean"
  BY DEF Init, R!Init, F!Init
<1>4. Quiet
  BY <1>3 DEF Init, Quiet
<1>5. InTurn
  BY <1>3 DEF InTurn
<1>6. Channel!Init
  BY <1>3 DEF Init, Channel!Init, Sound, Sounds
<1> QED
  BY <1>1, <1>2, <1>4, <1>5, <1>6 DEF PathInv

LEMMA PathStep ==
  PathInv /\ [Next]_vars => PathInv' /\ [Channel!Next]_(Channel!vars)
<1> SUFFICES ASSUME PathInv, [Next]_vars PROVE PathInv' /\ [Channel!Next]_(Channel!vars)
  OBVIOUS
<1>1. RP!IInv'
  BY RingStep DEF PathInv, Next, Interrupt, Refill, Play, vars
<1>2. FP!IInv'
  BY FifoStep DEF PathInv, Next, Decoder, Interrupt, Refill, Play, vars
<1>3. Quiet' /\ InTurn' /\ [Channel!Next]_(Channel!vars)
  <2>1. CASE Decoder
    BY <2>1, DecoderStep
  <2>2. CASE Interrupt
    BY <1>2, <2>2, InterruptFirst, InterruptNext
  <2>3. CASE Refill
    BY <1>2, <2>3, RefillStep
  <2>4. CASE Play
    BY <1>2, <2>4, PlayFirst, PlayNext
  <2>5. CASE UNCHANGED vars
    <3>1. /\ UNCHANGED <<played, word, heard, slurred, read, stream, written, is_playing>>
          /\ Ahead' = Ahead
      BY <2>5 DEF vars, ring, fifo, Ahead, Coming, FP!Dist, FP!Store, FP!SIZE
    <3>2. Quiet'
      BY <3>1 DEF PathInv, Quiet, F!JUNK, F!Tags
    <3>3. InTurn'
      BY <3>1, CalmTurns DEF PathInv, Calm, R!intact
    <3>4. UNCHANGED Channel!vars
      BY <3>1, SoundStays DEF Channel!vars
    <3> QED
      BY <3>2, <3>3, <3>4
  <2> QED
    BY <2>1, <2>2, <2>3, <2>4, <2>5 DEF Next
<1> QED
  BY <1>1, <1>2, <1>3 DEF PathInv

(* From process_mbe to the DAC, whatever the sizes of the ring and of the  *)
(* FIFO: unless the ring was spoiled, every sample is heard once and in    *)
(* the order it was decoded in.                                            *)
THEOREM PathImplements == Spec => ImplementsChannel
<1>1. Spec => []PathInv
  BY InitPathInv, PathStep, PTL DEF Spec
<1> QED
  BY <1>1, InitPathInv, PathStep, PTL DEF Spec, ImplementsChannel, Channel!Spec

================================================================================
