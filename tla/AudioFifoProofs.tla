---------------------------- MODULE AudioFifoProofs ----------------------------
(***************************************************************************)
(* Proofs about AudioFifo, for every size of the RAM, every delay of the   *)
(* refill that its assumption admits and every range of tags.              *)
(***************************************************************************)
EXTENDS AudioFifo, TLAPS

(* The half the player is not in, which is the one to refill; and the last *)
(* words of both.                                                          *)
Base == IF A0(bram_raddr) THEN 0 ELSE HALF
OtherLast == Base + HALF - 1
OwnLast == IF A0(bram_raddr) THEN SIZE - 1 ELSE HALF - 1

(* The word the next sample belongs to: latched already, or about to be.   *)
Store == IF isr = "addr" THEN audio_fifo_addr_offset ELSE bram_waddr

(* How far ahead of a word that is, round the RAM; and which sample was    *)
(* sent d samples before the one after s.                                  *)
Dist(a) == IF a < Store THEN Store - a ELSE Store - a + SIZE
Tag(s, d) == IF s + 1 >= d THEN s + 1 - d ELSE s + 1 - d + TAGS
TagAt(d) == Tag(sent, d)

(* Before the first sample.                                                *)
Fresh ==
  /\ isr \in {"idle", "data"} /\ vi = 0
  /\ sent = 0 /\ played = JUNK
  /\ bram_waddr = 0
  /\ bram = [a \in Words |-> JUNK]

(* Where the refill is, and where the player may be meanwhile.             *)
Control ==
  /\ Refilling => bram_raddr <= LATEST \/ bram_raddr \in HALF .. HALF + LATEST
  /\ pending => isr = "idle"
  /\ isr # "idle" => vi < HALF /\ audio_fifo_addr_offset = Base + vi
  /\ isr # "idle" /\ vi > 0 => bram_waddr = audio_fifo_addr_offset - 1
  /\ isr = "data" /\ vi = 0 => Fresh \/ bram_waddr = OwnLast
  /\ isr = "idle" =>
       \/ Fresh
       \/ vi = HALF /\ bram_waddr = IF pending THEN OwnLast ELSE OtherLast

(* Until the player is through the half it was in when the first refill    *)
(* began, it finds no sample there, and those sent wait for it in the      *)
(* other.                                                                  *)
Starting ==
  played = JUNK /\ ~Fresh =>
    /\ ~pending
    /\ isr = "data" => vi > 0
    /\ \A a \in Words : A0(a) = A0(bram_raddr) /\ a # 0 => bram[a] = JUNK
    /\ \A a \in Words : Base <= a /\ a < Store => bram[a] = TagAt(Store - a)

(* From then on all samples between the player and the refill are in order.*)
Sounding ==
  played # JUNK =>
    /\ played = TagAt(Dist(bram_raddr))
    /\ \A a \in Words : Dist(a) < Dist(bram_raddr) => bram[a] = TagAt(Dist(a))

IInv == TypeOK /\ Control /\ Starting /\ Sounding

-----------------------------------------------------------------------------
(* The two moduli, without division.                                       *)

LEMMA Below == ASSUME NEW m \in Nat \ {0}, NEW n \in 0 .. m - 1 PROVE n % m = n
OBVIOUS

LEMMA Above == ASSUME NEW m \in Nat \ {0}, NEW n \in m .. 2 * m - 1 PROVE n % m = n - m
OBVIOUS

LEMMA NextWord ==
  ASSUME NEW r \in Words
  PROVE  /\ (r + 1) % SIZE = IF r = SIZE - 1 THEN 0 ELSE r + 1
         /\ r % HALF = IF A0(r) THEN r - HALF ELSE r
<1> SIZE \in Nat \ {0} /\ HALF \in Nat \ {0} /\ SIZE = 2 * HALF
  BY FifoAssumption DEF SIZE
<1> r \in 0 .. SIZE - 1
  BY DEF Words
<1> HIDE DEF SIZE, Words
<1>1. r + 1 < SIZE => (r + 1) % SIZE = r + 1
  BY Below
<1>2. r + 1 = SIZE => (r + 1) % SIZE = 0
  BY Above
<1>3. r < HALF => r % HALF = r
  BY Below
<1>4. r >= HALF => r % HALF = r - HALF
  BY Above
<1> QED
  BY <1>1, <1>2, <1>3, <1>4 DEF A0

LEMMA NextTag ==
  ASSUME NEW tag \in Tags
  PROVE  Succ(tag) = IF tag = TAGS - 1 THEN 0 ELSE tag + 1
<1> TAGS \in Nat \ {0} /\ tag \in 0 .. TAGS - 1
  BY FifoAssumption DEF Tags
<1>1. tag + 1 < TAGS => (tag + 1) % TAGS = tag + 1
  BY Below
<1>2. tag + 1 = TAGS => (tag + 1) % TAGS = 0
  BY Above
<1> QED
  BY <1>1, <1>2 DEF Succ

(* Sampling order and RAM order agree: a sample later, a word further.     *)
LEMMA Order ==
  ASSUME TypeOK
  PROVE  /\ \A d \in 1 .. SIZE : TagAt(d) \in Tags
         /\ \A d \in 2 .. SIZE : TagAt(d - 1) = Succ(TagAt(d))
<1> USE FifoAssumption DEF TypeOK, Tags, SIZE, TagAt, Tag
<1>1. \A d \in 1 .. SIZE : TagAt(d) \in Tags
  OBVIOUS
<1>2. ASSUME NEW d \in 2 .. SIZE
      PROVE  TagAt(d - 1) = Succ(TagAt(d))
  BY <1>1, NextTag
<1> QED
  BY <1>1, <1>2

LEMMA InitIInv == Init => IInv
<1> SUFFICES ASSUME Init PROVE IInv
  OBVIOUS
<1> USE FifoAssumption DEF Init, Words, Tags, SIZE
<1>1. Fresh /\ ~Refilling
  BY DEF Fresh, Refilling
<1>2. TypeOK
  <2>1. 0 \in Words /\ JUNK \in Tags \cup {JUNK} /\ 0 \in Tags
    OBVIOUS
  <2>2. bram \in [Words -> Tags \cup {JUNK}] /\ pending \in BOOLEAN
    BY <2>1
  <2> QED
    BY <2>1, <2>2 DEF TypeOK
<1>3. Control
  BY <1>1 DEF Control
<1> QED
  BY <1>1, <1>2, <1>3 DEF IInv, Starting, Sounding

-----------------------------------------------------------------------------

Edge == bram_raddr = SIZE - 1 \/ bram_raddr = HALF - 1

(* What Play does, without moduli.                                         *)
LEMMA PlayMoves ==
  ASSUME TypeOK, Play
  PROVE  /\ bram_raddr' = IF bram_raddr = SIZE - 1 THEN 0 ELSE bram_raddr + 1
         /\ bram_raddr' \in Words
         /\ played' = bram[bram_raddr']
         /\ pending' = (pending \/ Edge)
         /\ Edge => A0(bram_raddr') = ~A0(bram_raddr) /\ ~Refilling
         /\ ~Edge => A0(bram_raddr') = A0(bram_raddr)
         /\ Refilling => bram_raddr' <= LATEST \/ bram_raddr' \in HALF .. HALF + LATEST
<1> DEFINE next == (bram_raddr + 1) % SIZE
<1> USE FifoAssumption DEF TypeOK
<1>1. next = IF bram_raddr = SIZE - 1 THEN 0 ELSE bram_raddr + 1
  BY NextWord
<1>2. next \in Words
  BY <1>1 DEF Words, SIZE
<1>3. next % HALF = IF A0(next) THEN next - HALF ELSE next
  BY <1>2, NextWord
<1>4. Edge <=> A0(next) # A0(bram_raddr)
  BY <1>1 DEF Edge, A0, Words, SIZE
<1>5. bram_raddr' = next /\ played' = bram[next] /\ (pending' = (pending \/ Edge))
  BY <1>4, Zenon DEF Play
<1>6. Refilling => ~Edge /\ next % HALF <= LATEST
  BY <1>4, Zenon DEF Play
<1>7. Refilling => next <= LATEST \/ next \in HALF .. HALF + LATEST
  BY <1>2, <1>3, <1>6 DEF Words, A0, SIZE
<1> HIDE DEF next
<1>8. A0(next) \in BOOLEAN /\ A0(bram_raddr) \in BOOLEAN
  BY DEF A0
<1> QED
  BY <1>1, <1>2, <1>4, <1>5, <1>6, <1>7, <1>8

(* The player never catches up with the refill.                            *)
LEMMA PlaysBehind ==
  ASSUME TypeOK, Control, Play, played # JUNK
  PROVE  Dist(bram_raddr) \in 2 .. SIZE /\ Dist(bram_raddr') = Dist(bram_raddr) - 1
<1> USE FifoAssumption DEF TypeOK, Words, SIZE
<1>1. ~Fresh
  BY DEF Fresh
<1>2. Store \in Words /\ bram_raddr # Store /\ bram_raddr' # Store
  <2>1. CASE isr = "addr"
    BY <2>1, PlayMoves DEF Control, Store, Base, Refilling, Edge, A0
  <2>2. CASE isr = "data"
    BY <1>1, <2>2, PlayMoves DEF Control, Store, Base, OwnLast, Refilling, Edge, A0
  <2>3. CASE isr = "idle"
    BY <1>1, <2>3, PlayMoves DEF Control, Store, Base, OwnLast, OtherLast, Refilling, Edge, A0
  <2> QED
    BY <2>1, <2>2, <2>3
<1>3. bram_raddr' = IF bram_raddr = SIZE - 1 THEN 0 ELSE bram_raddr + 1
  BY PlayMoves
<1> QED
  BY <1>2, <1>3 DEF Dist

LEMMA PlayStep == IInv /\ Play => IInv'
<1> SUFFICES ASSUME IInv, Play PROVE IInv'
  OBVIOUS
<1> USE FifoAssumption DEF IInv
<1>1. /\ UNCHANGED <<bram, bram_waddr, isr, vi, audio_fifo_addr_offset, sent>>
      /\ Store' = Store
  BY DEF Play, Store
<1>2. TypeOK'
  BY <1>1, PlayMoves DEF TypeOK
<1>3. Fresh => Fresh'
  BY <1>1, PlayMoves DEF Fresh, TypeOK
<1>4. bram_raddr \in Words /\ bram_raddr' \in Words
  BY PlayMoves DEF TypeOK
<1>5. ~Edge => /\ pending' = pending /\ Base' = Base
               /\ OwnLast' = OwnLast /\ OtherLast' = OtherLast
  <2>1. ~Edge => pending' = pending
    BY PlayMoves, Zenon DEF TypeOK
  <2> QED
    BY <2>1, PlayMoves DEF Base, OwnLast, OtherLast
<1>6. Edge => /\ pending' = TRUE /\ ~pending /\ isr = "idle"
              /\ OwnLast' = OtherLast
  <2>1. Edge => pending' = TRUE /\ ~pending /\ isr = "idle"
    BY PlayMoves, Zenon DEF Refilling
  <2> QED
    BY <2>1, <1>4, PlayMoves DEF Base, OwnLast, OtherLast, SIZE, A0
<1>7. Control'
  <2>1. CASE Edge
    <3>1. bram_raddr' <= LATEST \/ bram_raddr' \in HALF .. HALF + LATEST
      BY <2>1, PlayMoves DEF Edge, SIZE
    <3>2. Fresh' \/ (vi' = HALF /\ bram_waddr' = OwnLast')
      BY <1>1, <1>3, <1>6, <2>1 DEF Control
    <3> QED
      BY <1>1, <1>6, <2>1, <3>1, <3>2 DEF Control
  <2>2. CASE ~Edge
    <3>1. Refilling' = Refilling
      BY <1>1, <1>5, <2>2 DEF Refilling
    <3>2. Refilling => bram_raddr' <= LATEST \/ bram_raddr' \in HALF .. HALF + LATEST
      BY PlayMoves
    <3>3. pending => isr = "idle"
      BY DEF Control
    <3>4. isr # "idle" => /\ vi < HALF /\ audio_fifo_addr_offset = Base + vi
                          /\ vi > 0 => bram_waddr = audio_fifo_addr_offset - 1
      BY DEF Control
    <3>5. isr = "data" /\ vi = 0 => Fresh \/ bram_waddr = OwnLast
      BY DEF Control
    <3>6. isr = "idle" =>
            Fresh \/ (vi = HALF /\ bram_waddr = IF pending THEN OwnLast ELSE OtherLast)
      BY DEF Control
    <3> HIDE DEF IInv
    <3> QED
      BY <1>1, <1>3, <1>5, <2>2, <3>1, <3>2, <3>3, <3>4, <3>5, <3>6 DEF Control
  <2> QED
    BY <2>1, <2>2
<1>8. CASE played # JUNK
  <2>1. Dist(bram_raddr) \in 2 .. SIZE /\ Dist(bram_raddr') = Dist(bram_raddr) - 1
    BY <1>8, PlaysBehind
  <2>2. played' = TagAt(Dist(bram_raddr'))
    BY <1>4, <1>8, <2>1, PlayMoves DEF Sounding
  <2>3. played' # JUNK
    <3>1. TagAt(Dist(bram_raddr')) \in Tags
      BY <2>1, Order DEF SIZE
    <3>2. TAGS \notin Tags
      BY DEF Tags
    <3> QED
      BY <2>2, <3>1, <3>2 DEF JUNK
  <2>4. /\ \A a \in Words : Dist(a)' = Dist(a) /\ TagAt(Dist(a))' = TagAt(Dist(a))
        /\ Dist(bram_raddr)' = Dist(bram_raddr')
        /\ TagAt(Dist(bram_raddr))' = TagAt(Dist(bram_raddr'))
    BY <1>1 DEF Dist, TagAt, Tag
  <2>5. \A a \in Words : Dist(a) < Dist(bram_raddr') => bram[a] = TagAt(Dist(a))
    <3>1. \A a \in Words : Dist(a) \in Int
      BY DEF Dist, Words, Store, TypeOK, SIZE
    <3> QED
      BY <1>8, <2>1, <3>1 DEF Sounding, SIZE
  <2>6. Sounding'
    BY <1>1, <2>2, <2>4, <2>5 DEF Sounding
  <2> QED
    BY <1>2, <1>7, <2>3, <2>6 DEF Starting
<1>9. CASE Fresh
  <2>1. Fresh' /\ played' = JUNK
    BY <1>3, <1>9 DEF Fresh
  <2> QED
    BY <1>2, <1>7, <2>1 DEF Starting, Sounding
<1>10. CASE played = JUNK /\ ~Fresh /\ ~Edge
  <2>1. bram_raddr' # 0 /\ A0(bram_raddr') = A0(bram_raddr)
    BY <1>4, <1>10, PlayMoves DEF Edge, Words
  <2>2. played' = JUNK
    BY <1>4, <1>10, <2>1, PlayMoves DEF Starting
  <2>3. Starting'
    BY <1>1, <1>5, <1>10, <2>1 DEF Starting, TagAt, Tag
  <2> QED
    BY <1>2, <1>7, <2>2, <2>3 DEF Sounding
<1>11. CASE played = JUNK /\ ~Fresh /\ Edge
  <2>1. Store = OtherLast /\ bram_raddr' = Base /\ Base \in {0, HALF}
    <3>1. isr = "idle" /\ bram_waddr = OtherLast
      BY <1>6, <1>11 DEF Control
    <3>2. bram_raddr' = Base
      BY <1>11, PlayMoves DEF Edge, Base, A0, SIZE
    <3> QED
      BY <3>1, <3>2 DEF Store, Base
  <2>2. /\ \A a \in Words : Base <= a /\ a < Store => bram[a] = TagAt(Store - a)
        /\ Store = Base + HALF - 1
    BY <1>11, <2>1 DEF Starting, OtherLast
  <2>3. \A a \in Words : Dist(a) < Dist(Base) => Base <= a /\ a < Store
    BY <2>1, <2>2 DEF Dist, Words, SIZE
  <2>4. \A a \in Words : a < Store => Dist(a) = Store - a
    BY DEF Dist
  <2>5. /\ \A a \in Words : Dist(a)' = Dist(a) /\ TagAt(Dist(a))' = TagAt(Dist(a))
        /\ Dist(bram_raddr)' = Dist(Base)
        /\ TagAt(Dist(bram_raddr))' = TagAt(Dist(Base))
    BY <1>1, <2>1 DEF Dist, TagAt, Tag
  <2>6. played' = TagAt(Dist(Base)) /\ Dist(Base) = HALF - 1
    BY <1>4, <2>1, <2>2, <2>4, PlayMoves
  <2>7. played' # JUNK
    <3>1. TagAt(Dist(Base)) \in Tags
      BY <2>6, Order DEF SIZE
    <3>2. TAGS \notin Tags
      BY DEF Tags
    <3> QED
      BY <2>6, <3>1, <3>2 DEF JUNK
  <2>8. Sounding'
    BY <1>1, <2>2, <2>3, <2>4, <2>5, <2>6 DEF Sounding
  <2> QED
    BY <1>2, <1>7, <2>7, <2>8 DEF Starting
<1> QED
  BY <1>2, <1>8, <1>9, <1>10, <1>11

(* The interrupt is taken: the next sample still belongs where it did.     *)
LEMMA HandlerStep == IInv /\ EXTI0_IRQHandler => IInv'
<1> SUFFICES ASSUME IInv, EXTI0_IRQHandler PROVE IInv'
  OBVIOUS
<1> USE FifoAssumption DEF IInv
<1>1. /\ UNCHANGED <<bram, bram_raddr, bram_waddr, played, sent>>
      /\ isr = "idle" /\ isr' = "data" /\ vi' = 0 /\ audio_fifo_addr_offset' = Base
      /\ pending /\ pending' = FALSE
  BY DEF EXTI0_IRQHandler, Base
<1>2. /\ Base' = Base /\ OwnLast' = OwnLast /\ Store' = Store
      /\ Base \in {0, HALF}
  BY <1>1 DEF Base, OwnLast, Store
<1>3. TypeOK'
  <2>1. vi' \in 0 .. HALF /\ audio_fifo_addr_offset' \in {vi', vi' + HALF}
    BY <1>1, <1>2
  <2>2. isr' \in {"idle", "data", "addr"} /\ pending' \in BOOLEAN
    BY <1>1
  <2> QED
    BY <1>1, <2>1, <2>2 DEF TypeOK
<1>4. Fresh => Fresh'
  BY <1>1 DEF Fresh
<1>5. Fresh \/ bram_waddr = OwnLast
  BY <1>1 DEF Control
<1>6. Control'
  BY <1>1, <1>2, <1>4, <1>5 DEF Control, Refilling
<1>7. Starting'
  BY <1>1, <1>4 DEF Starting
<1>8. Sounding'
  BY <1>1, <1>2 DEF Sounding, Dist, TagAt, Tag
<1> QED
  BY <1>3, <1>6, <1>7, <1>8

(* The address that is latched is that of the next sample.                 *)
LEMMA WriteAddressStep == IInv /\ WriteAddress => IInv'
<1> SUFFICES ASSUME IInv, WriteAddress PROVE IInv'
  OBVIOUS
<1> USE FifoAssumption DEF IInv
<1>1. /\ UNCHANGED <<bram, bram_raddr, played, pending, sent>>
      /\ isr = "addr" /\ vi' = vi + 1 /\ audio_fifo_addr_offset' = audio_fifo_addr_offset + 1
      /\ isr' = IF vi' = HALF THEN "idle" ELSE "data"
  BY DEF WriteAddress
<1>2. /\ Base' = Base /\ OwnLast' = OwnLast /\ OtherLast' = OtherLast
      /\ Base \in {0, HALF}
  BY <1>1 DEF Base, OwnLast, OtherLast
<1>3. vi \in 0 .. HALF - 1 /\ audio_fifo_addr_offset = Base + vi /\ ~pending
  BY <1>1 DEF Control, TypeOK
<1>4. audio_fifo_addr_offset \in 0 .. SIZE - 1 /\ SIZE \in Nat \ {0}
  BY <1>2, <1>3 DEF SIZE
<1>5. bram_waddr' = audio_fifo_addr_offset
  BY <1>4, Below DEF WriteAddress
<1>6. Store' = Store
  BY <1>1, <1>5 DEF Store
<1>7. TypeOK'
  BY <1>1, <1>2, <1>3, <1>4, <1>5 DEF TypeOK, Words
<1>8. Control'
  BY <1>1, <1>2, <1>3, <1>5 DEF Control, Refilling, OtherLast
<1>9. ~Fresh /\ ~Fresh'
  BY <1>1, <1>3 DEF Fresh
<1>10. Starting'
  BY <1>1, <1>2, <1>3, <1>6, <1>9 DEF Starting, TagAt, Tag
<1>11. Sounding'
  BY <1>1, <1>6 DEF Sounding, Dist, TagAt, Tag
<1> QED
  BY <1>7, <1>8, <1>10, <1>11

(* What WriteData does: the store is not under the player, and the next    *)
(* one is a word further.                                                  *)
LEMMA StoresApart ==
  ASSUME TypeOK, Control, WriteData, ~Fresh
  PROVE  /\ bram_waddr # bram_raddr
         /\ Store = bram_waddr
         /\ Store' = IF bram_waddr = SIZE - 1 THEN 0 ELSE bram_waddr + 1
<1> USE FifoAssumption DEF TypeOK, Words, SIZE
<1>1. /\ UNCHANGED <<bram_raddr, bram_waddr, vi, audio_fifo_addr_offset>>
      /\ isr = "data" /\ isr' = "addr"
  BY DEF WriteData
<1>2. CASE vi = 0
  BY <1>1, <1>2 DEF Control, Store, Base, OwnLast, Refilling, A0
<1>3. CASE vi > 0
  BY <1>1, <1>3 DEF Control, Store, Base, Refilling, A0
<1> QED
  BY <1>2, <1>3

LEMMA WriteDataStep == IInv /\ WriteData => IInv'
<1> SUFFICES ASSUME IInv, WriteData PROVE IInv'
  OBVIOUS
<1> USE FifoAssumption DEF IInv
<1>1. /\ UNCHANGED <<bram_raddr, bram_waddr, played, pending, vi, audio_fifo_addr_offset>>
      /\ isr = "data" /\ isr' = "addr"
      /\ bram' = [bram EXCEPT ![bram_waddr] = sent']
      /\ sent' = Succ(sent)
  BY DEF WriteData
<1>2. sent' = IF sent = TAGS - 1 THEN 0 ELSE sent + 1
  BY <1>1, NextTag DEF TypeOK
<1>3. /\ bram_waddr \in Words /\ bram \in [Words -> Tags \cup {JUNK}]
      /\ sent \in 0 .. TAGS - 1 /\ sent' \in Tags
      /\ vi \in 0 .. HALF - 1 /\ ~pending
      /\ Base' = Base /\ Base \in {0, HALF} /\ Store' = Base + vi
  BY <1>1, <1>2 DEF TypeOK, Tags, Control, Base, Store
<1>4. TypeOK'
  BY <1>1, <1>3 DEF TypeOK
<1>5. ~Fresh'
  BY <1>1 DEF Fresh
<1>6. Control'
  BY <1>1, <1>3 DEF Control, Refilling, Base
<1>7. CASE Fresh
  <2>1. \A a \in Words : a # 0 => bram'[a] = JUNK
    BY <1>1, <1>3, <1>7 DEF Fresh
  <2>2. Store' = Base' /\ played' = JUNK /\ vi' = 0
    BY <1>1, <1>3, <1>7 DEF Fresh
  <2> QED
    BY <1>1, <1>3, <1>4, <1>6, <2>1, <2>2 DEF Starting, Sounding, Words
<1>8. CASE ~Fresh /\ played = JUNK
  <2>1. vi > 0 /\ Store = Base + vi - 1 /\ bram_waddr = Base + vi - 1
    BY <1>1, <1>3, <1>8 DEF Starting, Control, Store
  <2>2. \A a \in Words : A0(a) = A0(bram_raddr) => bram'[a] = bram[a]
    BY <1>1, <1>3, <2>1 DEF A0, Base, Words, SIZE
  <2>3. ASSUME NEW a \in Words, Base <= a, a < Base + vi
        PROVE  bram'[a] = Tag(sent', Base + vi - a)
    <3>1. CASE a = bram_waddr
      BY <1>1, <1>3, <2>1, <3>1 DEF Tag, Tags
    <3>2. CASE a # bram_waddr
      <4>1. a < Store
        BY <1>3, <2>1, <2>3, <3>2 DEF Words
      <4>2. bram'[a] = Tag(sent, Base + vi - 1 - a)
        BY <1>1, <1>3, <1>8, <2>1, <2>3, <3>2, <4>1 DEF Starting, TagAt
      <4> QED
        BY <1>1, <1>2, <1>3, <2>1, <2>3, <4>1, <4>2 DEF Tag, Words, SIZE
    <3> QED
      BY <3>1, <3>2
  <2>4. ASSUME NEW a \in Words, Base' <= a, a < Store'
        PROVE  bram'[a] = TagAt(Store - a)'
    <3>1. Base <= a /\ a < Base + vi
      BY <1>3, <2>4
    <3>2. bram'[a] = Tag(sent', Base + vi - a)
      BY <2>3, <3>1
    <3>3. TagAt(Store - a)' = Tag(sent', Store' - a)
      BY DEF TagAt, Tag
    <3>4. Store' - a = Base + vi - a
      BY <1>3 DEF Words
    <3> QED
      BY <3>2, <3>3, <3>4, Zenon
  <2>5. \A a \in Words : A0(a) = A0(bram_raddr)' /\ a # 0 => bram'[a] = JUNK
    BY <1>1, <1>8, <2>2 DEF Starting, A0
  <2>6. Starting'
    BY <1>1, <1>3, <2>1, <2>4, <2>5 DEF Starting, A0
  <2> QED
    BY <1>1, <1>4, <1>6, <1>8, <2>6 DEF Sounding
<1>9. CASE ~Fresh /\ played # JUNK
  <2>1. /\ bram_waddr # bram_raddr /\ Store = bram_waddr /\ bram_raddr \in Words
        /\ Store' = IF bram_waddr = SIZE - 1 THEN 0 ELSE bram_waddr + 1
    BY <1>9, StoresApart DEF TypeOK
  <2>2. \A a \in Words : Dist(a)' = IF a = bram_waddr THEN 1 ELSE Dist(a) + 1
    BY <1>3, <2>1 DEF Dist, Words, SIZE
  <2>3. \A a \in Words : Dist(a) \in 1 .. SIZE
    BY <1>3, <2>1 DEF Dist, Words, SIZE
  <2>4. \A d \in 1 .. SIZE : Tag(sent, d) = Tag(sent', d + 1) /\ Tag(sent', 1) = sent'
    BY <1>2, <1>3 DEF Tag, SIZE, Tags
  <2>5. Dist(bram_raddr)' = Dist(bram_raddr) + 1
    BY <1>1, <2>1, <2>2 DEF Dist
  <2>6. played' = TagAt(Dist(bram_raddr))'
    BY <1>1, <1>9, <2>1, <2>3, <2>4, <2>5 DEF Sounding, TagAt
  <2>7. ASSUME NEW a \in Words, Dist(a)' < Dist(bram_raddr)'
        PROVE  bram'[a] = Tag(sent', Dist(a)')
    <3>1. CASE a = bram_waddr
      BY <1>1, <1>3, <2>2, <2>3, <2>4, <3>1
    <3>2. CASE a # bram_waddr
      <4>1. Dist(a)' = Dist(a) + 1 /\ Dist(a) < Dist(bram_raddr)
        BY <2>1, <2>2, <2>3, <2>5, <2>7, <3>2
      <4>2. bram'[a] = Tag(sent, Dist(a))
        BY <1>1, <1>3, <1>9, <3>2, <4>1 DEF Sounding, TagAt
      <4> QED
        BY <2>3, <2>4, <4>1, <4>2
    <3> QED
      BY <3>1, <3>2
  <2>8. Sounding'
    BY <2>6, <2>7 DEF Sounding, TagAt
  <2> QED
    BY <1>1, <1>4, <1>6, <1>9, <2>8 DEF Starting
<1> QED
  BY <1>7, <1>8, <1>9

LEMMA Step == IInv /\ [Next]_vars => IInv'
<1>1. IInv /\ UNCHANGED vars => IInv'
  BY DEF vars, IInv, TypeOK, Control, Starting, Sounding, Fresh, Refilling, Base, OwnLast,
         OtherLast, Store, Dist, TagAt
<1> QED
  BY <1>1, PlayStep, HandlerStep, WriteAddressStep, WriteDataStep DEF Next, Refill

(* TypeOK: every store goes inside the RAM.                                *)
THEOREM FifoTypeCorrect == Spec => []TypeOK
<1>1. IInv => TypeOK
  BY DEF IInv
<1> QED
  BY <1>1, InitIInv, Step, PTL DEF Spec

(* The player goes from a sample to the one sent after it.                 *)
LEMMA PlaysNext == IInv /\ Play /\ played # JUNK => played' = Succ(played)
<1> SUFFICES ASSUME IInv, Play, played # JUNK PROVE played' = Succ(played)
  OBVIOUS
<1> USE DEF IInv
<1>1. Dist(bram_raddr) \in 2 .. SIZE /\ Dist(bram_raddr') = Dist(bram_raddr) - 1
  BY PlaysBehind
<1>2. played' = TagAt(Dist(bram_raddr) - 1)
  BY <1>1, PlayMoves DEF Sounding, SIZE
<1> QED
  BY <1>1, <1>2, Order DEF Sounding

(* PlayedWholeInOrder: every sample is heard once, in order, without a gap *)
(* and whole.                                                              *)
THEOREM FifoInOrder == Spec => PlayedWholeInOrder
<1>1. ASSUME IInv, [Next]_vars, played # JUNK
      PROVE  /\ bram_raddr' # bram_raddr => played' = Succ(played)
             /\ bram' # bram => bram_waddr # bram_raddr
  <2> USE <1>1 DEF IInv
  <2>1. CASE Play
    BY <2>1, PlaysNext DEF Play
  <2>2. CASE EXTI0_IRQHandler \/ WriteAddress \/ UNCHANGED vars
    BY <2>2 DEF EXTI0_IRQHandler, WriteAddress, vars
  <2>3. CASE WriteData
    <3>1. ~Fresh
      BY DEF Fresh
    <3> QED
      BY <2>3, <3>1, StoresApart DEF WriteData
  <2> QED
    BY <1>1, <2>1, <2>2, <2>3 DEF Next, Refill
<1> QED
  BY <1>1, InitIInv, Step, PTL DEF Spec, PlayedWholeInOrder
=============================================================================
