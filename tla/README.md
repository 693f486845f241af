# A verification model of the AT86RF215 SDR firmware

The repository is the firmware of a software-defined radio built from an STM32H743
microcontroller, an ICE40 FPGA and an AT86RF215 transceiver.  On its own it receives P25
Phase 1 voice: I/Q blocks from the FPGA are filtered, demodulated, framed, decoded and
played through an I2S DAC.  Over Ethernet it offers a telnet console, an rtl_tcp-style
control port with I/Q over UDP (for GQRX), and an iperf3 server.

This directory holds TLA+ modules for the parts whose correctness depends on the order of
events, the TLC configurations that check them on small instances, and TLAPS proofs.

All paths below are relative to `src/firmware/` unless they begin with `src/`.

## 1. Inventory

| Component | Source | State it keeps | Operations | Interacts with |
|---|---|---|---|---|
| Voice ring | `p25/p25_decode.c` (`process_mbe`), `fpga.c` (`do_audio_fifo_fill`) | `out_buffer`, `out_s`, `out_e`, `is_playing` | store a decoded frame; take up to 512 samples | written by the main loop, read by EXTI0 |
| Audio FIFO of the FPGA | `fpga/src/fpga_top.v`, `fpga/src/bram_256_16.v`, `Src/stm32h7xx_it.c` (`EXTI0_IRQHandler`), `fpga.c` | 1024-word BRAM, read counter, write address, data latch | play a word; latch data; latch address; refill a half | pin A0 interrupts the MCU at each half |
| I/Q double buffer | `fpga/src/fpga_top.v`, `Src/stm32h7xx_it.c` (`EXTI1_IRQHandler`) | two 256-word banks, 9-bit write counter | write a sample; copy a bank | pin A1 interrupts the MCU at each bank change |
| Sample buffer | `Src/main.c` (`process_incoming_rf`, `udp_data_rx`, main loop) | `in_buffer`, `in_buffer_len` | append (EXTI1 or lwIP), drain | feeds scanner and demodulator |
| Scanner | `Src/main.c` (`calc_stddev`, `scanner_next_channel`, channel timeouts) | `current_channel`, `found_signal`, `channel_timeout`, `stddev_n` | measure a block, hop, hold | told of sync and end of call by the decoder; retunes the radio |
| P25 framing | `p25/p25_decode.c` | sync countdown, bit counters, NAC, DUID, voice state, encryption mute | one dibit at a time | voice ring, scanner |
| Console | `telnet.c`, `std_io.c`, `command.c`, `at86rf215.c` (`atrf_dump_regs`) | one pair of session flags, output buffer, line buffer, deferred-command flags | accept, receive, poll, close, print, dump the registers | lwIP callbacks, main loop |
| rtl_tcp server | `rtl_tcp_driver.c` | `do_gqrx`, 5-byte command framing, AGC shadow | accept, command, close | sets the radio's rate and gain, and `sa_mode`, which tells EXTI1 what to do; console, scanner and the radio's initialisation set them too |
| iperf server | `iperf.c` | `local_state`, `do_reverse`, control and data connection | accept, receive, sent, poll, close | lwIP |
| Ethernet transmission | `Src/ethernetif.c` (`low_level_output`), `stm32h7xx_hal_eth.c` (`HAL_ETH_Transmit`) | `TxConfig`, descriptor ring, ring index, the DMA's tail pointer | send a frame | called by lwIP from the main loop and from EXTI1; the DMA |
| Configuration store | `globals.c`, `flash_s08.c`, `crc32.c` | RAM copy, flash sector, CRC | default, set, write, read | console, radio set-up; not read at start |
| Radio driver | `at86rf215.c` | transceiver registers, scan flag | set frequency, gain, rate, mode; channel scan; transmit | SPI3, shared with tuner and flash |
| FPGA image codec | `rle.c`, `fpga.c` (`fpga_rle_decode`), `src/firmware/compress_fpga_image.java` | none | run-length encode and decode | build tool and boot |
| Everything else | `channel_filter.c`, `fft.c`, `p25/p25_stats.c`, `mbelib/`, `Drivers/`, `Middlewares/`, `ext_tuner/`, ... | - | DSP, vocoder, HAL, lwIP, the firmware of a second board | out of scope (section 8) |

### How the parts run together

There is no operating system.  Three contexts share memory:

* **the main loop** (`main`, `Src/main.c:504`): drains the sample buffer, runs scanner and
  decoder, and in between calls `MX_LWIP_Process`, so that every lwIP callback (telnet,
  rtl_tcp, iperf, `udp_data_rx`) and every `main_tick` runs in it;
* **EXTI0** (priority 1), raised by both edges of the audio FIFO's half pin: refills half a
  FIFO from the voice ring;
* **EXTI1** (priority 0, preempts the other two), raised by both edges of the I/Q bank pin:
  copies 256 I/Q words, then either sends them over UDP or filters and demodulates them into
  the sample buffer.

The FPGA is a fourth actor, clocked by the radio and by I2S; it waits for nobody.

```
 radio -> FPGA banks --EXTI1--> iq_data -> in_buffer --main loop--> scanner
                                    \                        \-----> p25_decode -> out_buffer
                                     \-> UDP (GQRX, echo)                              |
 DAC <- I2S <- FPGA audio FIFO <---------------EXTI0-----------------------------------/
```

### What is hard, and what makes each part correct

Nothing is locked and hardly anything is masked, so correctness rests on orders of events
that no test arranges.  `PROJECT.json` lists every such place ("hazards") with its line and
the property that watches it.  In short:

* *Voice ring*: two volatile stores per sample that C leaves unordered, an index that is out
  of range for one instruction, no full test.  Correct if the interrupt plays the decoder's
  samples once each, in order, without leaving a tail behind.
* *Audio FIFO*: data is written before its address, so each refill is one word off and
  touches the half being played.  Correct if nobody can hear that.
* *I/Q double buffer*: the handler reads the bank that is being written.  Correct if a
  punctual handler still gets a whole half of the stream, and the next one next time.
* *Sample buffer*: a plain `int` shared with a preempting interrupt.  Correct if indices stay
  inside, nothing is demodulated twice, and what is lost is lost only to a preemption.
* *P25 framing*: one function, 600 lines, a dozen counters with unrelated periods.  Correct
  if each voice bit is taken from its place, an encrypted call stays silent, and noise is
  given up.
* *Scanner*: five places set one timeout.  Correct if a call keeps its channel, silence is
  left, and no combination of timeout and flag is a dead end.
* *rtl_tcp server*: commands framed by a loop that starts from an uninitialised counter,
  overlapping sessions of one radio, which console and scanner set as well.  Correct if what is
  executed of a segment does not depend on that counter, and what a session changed is changed
  back.
* *Console*: any number of sessions share one pair of flags, one output buffer and one line
  buffer, and a command waits inside the main loop for its output to be sent.  Correct if
  nobody gets another's answers, no line is taken for another, and the wait ends.
* *Configuration store*: the only copy is erased and programmed in place.  Correct if a loss
  of power anywhere leaves a whole configuration or one that is known not to be.
* *Image code*: encoders and decoder go a byte beyond the length, and the two encoders
  disagree on how the last run ends.  Correct if the FPGA gets its image.
* *Ethernet transmission*: lwIP and the driver below it run in the main loop and, at any
  moment, in EXTI1, with nothing masked.  Not correct as it is; the question is which
  preemptions are harmless.
* *iperf server*: one automaton for all connections, driven by any callback of any of them.
  Correct if messages come in order, and if no client leaves it in a state that keeps the next
  one from its test.

## 2. Modules

| Module | Extends | Contains |
|---|---|---|
| `AudioRing` | - | voice ring: `process_mbe` against `do_audio_fifo_fill` |
| `AudioFifo` | - | audio FIFO: I2S player, EXTI0, the two bus writes of the refill |
| `IqDoubleBuffer` | - | I/Q banks: sample writes, EXTI1 and its copy |
| `SampleBuffer` | - | `in_buffer`: EXTI1, `udp_data_rx`, main loop |
| `P25Decode` | - | `p25_decode`, one dibit per step |
| `Scanner` | - | `calc_stddev`, hops, timeouts, decoder events |
| `RtlTcp` | - | `rtl_tcp_driver.c`: sessions, commands; the radio's rate and gain and their configured values, whoever sets them |
| `VoiceChannel` | - | abstract: what the voice path promises the listener |
| `VoicePath` | instances of `AudioRing`, `AudioFifo`, `VoiceChannel` | the two joined by EXTI0, and the refinement |
| `Console` | - | telnet sessions, the two buffers they share, deferred commands, the register dump |
| `NonVolatile` | - | abstract: a configuration that survives losses of power |
| `ConfigStore` | instance of `NonVolatile` | the configuration in RAM and flash, and the refinement |
| `Rle` | - | both encoders and the decoder of the FPGA image |
| `EthTx` | - | `low_level_output`, `HAL_ETH_Transmit`, the descriptor ring and the DMA |
| `Iperf` | - | the iperf3 server and its clients |
| `MC...` | the module | the small sets TLC needs |
| `MCServices` | `Console`, `ConfigStore`, `Rle`, `EthTx`, `Iperf` | the five modules that share no state, in one run |
| `AudioRingProofs`, `AudioFifoProofs`, `IqDoubleBufferProofs`, `SampleBufferProofs`, `RtlTcpProofs` | the module, TLAPS | theorems |
| `VoicePathProofs` | `VoicePath`, TLAPS, instances of `AudioRingProofs`, `AudioFifoProofs` | the proof of the refinement |
| `ReceiverProofs` | `P25Decode`, `Scanner`, TLAPS | theorems about the two |
| `ServicesProofs` | `MCServices`, TLAPS | theorems about its five modules |

Each variable has the name of the C or Verilog variable it stands for; the others are marked
in their declaration, and those marked *history* only record what happened, so that a
property can speak of it.  A definition named `X_Something` directly before `X`, with a
comment that begins "Mutant", is `X` with a plausible bug in it; each property is known to
fail for at least one of them.  The five modules of `MCServices` are extended together, so the
names every module has (`Init`, `Next`, `Spec`, `TypeOK`) carry a prefix there (`ConsoleInit`);
those of `Scanner` do too, since `ReceiverProofs` extends it together with `P25Decode`.

**AudioRing.**  `out_buffer[out_e++] = x; out_e &= mask` is three steps in either of the two
orders the compiler may choose (`StoreThenBump`/`BumpAfterStore` or
`BumpBeforeStore`/`LateStore`, then `MaskEnd`); the interrupt `Fill` is one step because
nothing that preempts it touches this state.  `Frame` is the playing test (a xor, not a
distance) and the choice of how many samples the resampler returned.  `EndOfCall` is what
TDULC does, `SetAudio` the console's `audio` command.  Samples are numbered, so that "in
order" can be said.

**AudioFifo.**  `Play` is half an I2S frame: the read counter steps and a change of its top
bit sets `pending`.  `EXTI0_IRQHandler` clears it and reads the pin; `WriteData` goes to the
address that the *previous* `WriteAddress` latched.  The one timing assumption is in `Play`'s
guard: while a refill is due or running, the player gets no further than word `LATEST` of its
half.

**VoicePath.**  The actions are those of the two components.  `Interrupt` is `Fill` and
`EXTI0_IRQHandler` in one step: EXTI0 preempts the main loop, which does not move again before
the last word is written, so that all samples may be taken when the handler starts, and
`Refill` then writes them one by one against the player.  `word` records what each tag of the
FIFO stands for.  `VoiceChannel` knows nothing of buffers: samples are made, heard once each in
order, silence anywhere; a sample asked for too early may be slurred, and the order may be
spoiled.  The mapping takes `made` from `written` and the present sound from the word last
handed to the DAC, and calls it slurred if it is not the sample whose turn it is.

**IqDoubleBuffer.**  `Sample` stores a sample and advances the address; `Copy` is one word of
the `memcpy`; `Return` is the end of whatever the handler does afterwards, which may take any
time.  The timing assumption is `slack`: a processor that is copying copies at least `SPEED`
words per sample.  Note that `bram_256_16_dual` is instantiated with `ren` tied to the bank
that is *not* being written (`fpga/src/fpga_top.v:199`) but its body ignores `ren`
(`fpga/src/bram_256_16.v:42`), which is why the model lets the handler read any bank.

**SampleBuffer.**  `Append` is EXTI1 and atomic.  The other two parties are in the main loop
and can be preempted between any two accesses: `Datagram`, `LoadLen`, `Byte`, `Publish` for
`udp_data_rx`; `Test`, `Load`, `Reset`, `Copy` for the drain.  `build` is chosen once: whether
the compiler keeps `in_buffer_len` in a register through a datagram, and whether it reloads
it between the test and the assignment.  Bytes are numbered like the ring's samples.

**P25Decode.**  Every action is one call of `p25_decode`; which one is enabled depends on the
counters exactly as in the code's sequence of `if`s.  Soft symbols are abstracted to what the
code compares them with: did the sync pattern match, is the NAC ours, which DUID, what did
the header say.  The counters are not scaled: 36, 426, 144, 1200 and the 22 of the
re-alignment are the code's.

**Scanner.**  `PartOfBlock` and `Block` are the two outcomes of `calc_stddev`; `SyncFound`,
`CallEnds`, `SyncLost` and `Reset` are what the decoder does to the scanner's variables,
possible only while `found_signal` lets it run.  `band` says whether anyone will ever
transmit again.

**RtlTcp.**  A session is a TCP connection: accepting it changes the radio's rate and gain, whose
configured values stay in `config`, and `config->sa_mode` itself; closing it sets rate and gain
from `config` again.  The loop over a segment is one action per iteration
(`Skip`, `SetGain`, `SetFrequency`, `SetAgc`), as the code advances `i` and counts `cmd_mod`;
`cmd_mod` starts with any value, being an uninitialised local.  `Reset` is lwIP's: it frees the
connection and calls nothing, because no error callback is installed.  `srate` and `gain` are
the radio's registers (`RadioRate` and `RadioGain` say what it makes of a value it does not
have), and every writer of them or of their configured values is an action: `rfgain` and
`set_srate` set both sides, `read_config` and `scanner_mode` the configuration alone,
`scanner_next_channel` and `atrf_check_init` the radio alone.  The last is the initialisation
of the radio, which happens at the first `at_dump` or `at_scan` and not at the start, so that
the radio begins with whatever its power-on left.  `read_config` may find anything in `SAVED`: the
code looks at no CRC.  `parted` records which of stream, rate and gain has been set on one side
alone since the last session was closed; `Restored` speaks of the others.  `wanted` is the
`sa_mode` that was asked for other than by a session.

**Console.**  Everything is in the main loop, so a callback is one step; what interleaves is
whole callbacks, and the wait in `atrf_dump_regs`, which calls `main_tick` until `net_buffer` is
empty (`NextPortion`).  `conn` is lwIP's view of a connection: telnet.c has one pair of flags
for all of them.  `Aborts` is the end of a session in `telnet_recv`; lwIP goes on with the
freed connection until `tcp_output`, because `ERR_OK` is returned.  `Vanish` is a connection
that lwIP drops without a word: there is no error callback.  An element of `net` names whose
answer it is, and a line of the console is the command it is taken for.

**NonVolatile, ConfigStore.**  A byte is the set of its one bits, so erasing makes it all bits
and programming intersects.  `EraseByte` and `EraseCrc` come in any order; programming runs
from the first byte to the CRC, which is ideal: a value computed from one configuration
matches no other.  `PowerLoss` is possible everywhere and the start does not read the flash:
only the console's `read_config` does, and it takes over what it finds whether the CRC is
right or not.  The abstract store keeps one configuration or none; a save that is cut short
may leave none.

**Rle.**  One action per iteration of each of the three loops.  `in` is what the encoder
really reads, for the firmware's one byte more than it was asked to encode; bytes read beyond
an array are arbitrary.

**EthTx.**  The main loop's transmission is one step per access to shared state (`SetLength`,
`SetTxBuffer`, `Prepare`, `WriteAddress`, `WriteOwn`, `StoreIndex`, `Advance`, `LoadTail`,
`Poll`); EXTI1 does all of it in one.  An interrupt between the last two leaves the main loop
with an old tail pointer, which it writes; `InTurn` and `GoesOnWhileCalm` hold all the same, so
that this is no bad moment.  `DmaSend` and `DmaSuspend` are the DMA with its tail pointer.  Frames
are names.  `calm` is true until an interrupt comes at one of `BadMoments`, that is from the
store of the frame's length to the advance of the ring's index; afterwards nothing is
promised, frames are no longer told apart, and only `EthTypeOK` is still claimed.

**Iperf.**  A connection is accepted as data connection in state 3 and as control connection
in every other; no callback looks at which connection it was called for.  The client follows
iperf3's protocol, waiting for each message, and may be interrupted (it says so), die (it does
not) or have writes merged into one segment by a retransmission; `Receive` takes any number of
its writes at once.  `spoiled` remembers the clients that were not alone or not well-behaved.
The state that would need a timeout has none: the code for it is commented out.

## 3. Runs

`tlc -config <cfg> <module>` with the module and configuration named.  Deadlock is checked
in all of them but `services`: an image is decoded once, and iperf clients may all be done.

| Run | Module / configuration | States | Bounds, and why they are enough |
|---|---|---|---|
| `audio_ring` | `MCAudioRing` | 3 712 | 8 slots, 3 words per interrupt, mark 4, frames of 1 or 2 samples, 12 samples in all: the indices wrap once and a half, a fill can be full, partial or empty, the producer can lap the reader, and the mark is a power of two below the size as in the code |
| `audio_fifo` | `MCAudioFifo` | 1 198 | two halves of 4 words, refill allowed up to word 2 of 4 (the worst case the assumption admits), tags modulo 17, more than twice what the RAM can hold; the run has no other bound and covers any number of refills |
| `iq_double_buffer` | `MCIqDoubleBuffer` | 10 888 | banks of 5 words, 2 words copied per sample, half numbers modulo 6 (three halves are alive at a time); unbounded in time; 5 is odd and longer than two steps of the copy, so that a late copy and the writer can meet at every offset |
| `sample_buffer` | `MCSampleBuffer` | 97 191 | 6 bytes, blocks of 1 or 2 samples, datagrams of 2 and 3 bytes (even and odd), 11 bytes in all, all four builds: the buffer fills, rejects, and is emptied more than once |
| `p25_decode` | `MCP25Decode` | 928 491 | the code's own constants; the signal can break off at six places (in a NID, in a header, in a codeword, in link control, at a frame's end) and one NID per sync pattern may be looked for in the wrong place.  Breaking off anywhere would multiply the states by some hundreds and adds nothing: the counters are cleared in the same way everywhere |
| `scanner` | `MCScanner` | 17 536 | 3 channels, blocks of 4 samples fed by batches of 2 or 6, timeouts 1 < 2 < 3 < 4 < 5 in the order of the real 2 < 4 < 10 < 60 < 180 |
| `voice_path` | `MCVoicePath` | 6 881 850 | ring of 4 slots, mark 2, two frames of 3 samples, halves of 3 words refilled up to word 1, tags modulo 18: the ring wraps and can be lapped, refills are full, partial and empty; a half of 3 is the shortest that tells the half being played from the other.  `heard` stops counting when the stream is spoiled, as nothing is promised then |
| `rtl_tcp` | `MCRtlTcp` | 2 121 690 | 2 connections, segments of 5, 7, 10 and 15 bytes (one command, one and a half, two, three), all values of the counter; gain 12 besides the AGC and the scanner's 8 and 12; rate 400 000 besides the code's own; modes 0 and 1; two configurations to be read, one saved whole and one cut short, with a rate and a gain the radio does not have: two values of each suffice to tell the two sides apart |
| `services` | `MCServices` | 282 468 | a behaviour is one of a single part.  *Console*: 2 connections, each used again, room for 2 prints, a dump that waits twice: sessions overlap, the buffer fills, a dump outlives its session.  *Configuration*: 2 bytes of 2 bits, enough for a sector half erased and half programmed over each of 16 configurations.  *Image*: counts of at most 2 (255), all images of up to 6 bytes, longer than two runs of the greatest length.  *Ethernet*: 2 descriptors, so that the ring is empty, half full, full and wraps; 6 frame names, more than can be in use.  *iperf*: 2 clients, one in reverse, one of which may fail; unbounded payload |
| `rtl_tcp_mode` | `MCRtlTcp`, `MCRtlTcpMode.cfg` | violation | as `rtl_tcp` |
| `sample_buffer_echo` | `MCSampleBuffer`, `MCSampleBufferEcho.cfg` | violation | as `sample_buffer` |
| `p25_link_control` | `MCP25Decode`, `MCP25LinkControl.cfg` | violation | as `p25_decode` |

What they show:

* **audio_ring.**  `RingHoldsBacklog`: as long as nothing has spoiled the ring, the slots
  between the two indices are the samples made and not yet played.  `FillInOrder`: each
  interrupt plays the oldest of them, all there are up to a fill; the single exception is a
  sample whose index was published before its value.  `SpoiledOnlyByWrapOrLap`: exactly two
  interleavings break the ring.  One is real but narrow (the interrupt sees `out_e` before
  its mask at the end of the array while less than one fill is buffered: it then runs past
  the end of the backlog); the other is the missing full test.  `EverySampleHeard`: with
  audio on, no tail is left behind once playback has begun.
* **audio_fifo.**  `PlayedWholeInOrder`: the off-by-one-word refill
  is inaudible, because the word it misses is completed by the next refill before the player
  arrives, and the word it trespasses on has been played.  `EventuallySound`: the handshake
  never stalls.
* **iq_double_buffer.**  `WholeUnlessLate`, `GaplessUnlessLate`: although the handler copies
  the bank under the writer's pen, a handler that was free at the edge gets whole halves, and
  two such in a row get consecutive ones.  `OneSeam`: a late one gets a block with at most
  one seam, new samples before old ones.
* **sample_buffer.**  `TypeOK` says here that no index leaves its array whatever the three
  parties do to each other's copies of the length.  `NothingStale`: no byte is demodulated
  again.  `BatchIsWhatWasStored`: loss needs a preemption between a load of the length and
  its use.  `Drains`: the only way to get stuck is a datagram of odd length.
* **p25_decode.**  `DibitsInPlace`: all nine codewords of a frame are taken from where the
  air interface puts them, through status symbols and the words in between; the header is not
  re-aligned and may be off by one dibit, never more.  `EncryptedStaysMuted`: from an intact header that says "encrypted" to the next
  header or loss of sync, no frame is played, whatever arrives in between.  `GivesUp`: a
  decoder that filters networks leaves sync within 1209 dibits of the last sync pattern, and
  at the next NID if it was misled.
* **scanner.**  `CallKeepsChannel`: a fade shorter than `IN_SYNC` blocks never loses a call.
  `ParkedOnlyByReset`: the state that no block leaves (a found signal with no timeout) is
  entered from `p25_reset_stats` alone.  `HopsInSilence`: apart from that state, a silent
  band is always hopped through, even if the signal vanished while the decoder, now paused,
  was in sync.
* **voice_path.**  `ImplementsChannel`: the two halves of the path, each with its own reason
  to be right, are right together.  From `process_mbe` to the DAC every sample is heard once and
  in order, whatever silence is mixed in, except one published before it is stored, and until
  the ring is spoiled.
* **rtl_tcp.**  `FirstHalfTaken`: of a segment of whole commands the loop takes the first half,
  rounded up, and drops the others, whatever `cmd_mod` was to begin with.  `Restored`: when the
  last session has been closed, streaming is off and the radio is at the configured rate and
  gain, or at what it makes of them, however sessions overlapped with each other, the console
  and the scanner.  From then on each of the two stays at its configured value until one side
  alone is set: by `read_config` or `scanner_mode`, which do not set the radio, by a hop of the
  scanner or the first dump, which do not set the configuration, or by a last session that its
  peer resets.  None of these is undone before the next session is closed or the console sets
  the value.  Nor do they agree at the start, as nothing sets the radio then.

* **services.**  `ServicesTypeOK` is the five modules' type invariants.
* **services**, console.  `KeptForItsReader`: unless a session vanished, output is not kept when
  none is there, and a session that has the console to itself is sent nothing printed for
  another.  `Understood`: as long as segments are whole lines, no command is taken
  for another, whatever an earlier session left in the line buffer.  `DumpEnds`: the main loop
  leaves the wait of a register dump, unless the session ends or vanishes meanwhile: then it
  stays until somebody connects.
* **services**, configuration.  `ImplementsStore`: the flash is all or nothing to whoever asks
  the CRC; `CrcTells`, proved but no run's property, is why.  `ReadInTurn`: `read_config` gives what was saved when it was
  typed, a pending save included, although the two flags are looked at in a fixed order.
* **services**, image code.  `ReadBack`: the firmware's pair agrees on every input, the byte too
  many included, within the code; the tool's image arrives whole unless it ends in a run of
  three, which the tool leaves without its count, and the decoder reads at most two bytes of
  what follows.
* **services**, Ethernet.  `InTurn`: an interrupt before the main loop has touched `TxConfig`'s
  length or after it has advanced the index is harmless; the DMA gets every accepted frame
  once, whole, in order.  `RefusedWhenFull`: a frame is dropped only for want of a descriptor.
  `GoesOnWhileCalm`: the ring does not come to a stand even when it was full, because every
  later call writes the tail pointer.  After a single interrupt at a bad moment none of these
  holds: frames are sent twice, or with another's length, and the ring can stop for good.
* **services**, iperf.  `ToldInOrder`: however tests overlap or are cut off, no connection gets a
  message twice, early or with one missing.  `Served`: a client that is alone and whose writes
  arrive one by one reaches the end of its test, whatever state the one before left, except
  state 3: there its control connection is taken for the data connection of the other.

### Where code and comments disagree

* `rtl_tcp_mode`: on closing a session the code says `//restore settings`
  (`rtl_tcp_driver.c:317`) and restores rate and gain; `config->sa_mode`, set to 4 at
  `rtl_tcp_driver.c:360`, stays, and `process_incoming_rf` goes on returning early
  (`Src/main.c:1336`).
* `sample_buffer_echo`: `process_incoming_rf` sends `ch_ny*2` bytes from where its samples
  *would have* gone in `in_buffer` and calls them "the final fm-demod/filtered audio product"
  (`Src/main.c:1393`).  When the buffer is full the samples were dropped and older bytes, or
  bytes behind the array, are sent.
* `p25_link_control`: comments at `p25/p25_decode.c:717` and `:721` say that 40 bits of each
  link control word, 240 in all, are collected.  `bit_count` is already 2 at the first dibit
  and the test is `< 40`, so 19 dibits of each word, 228 bits, are.

Four more were met while modelling and are no runs of their own.  `telnet_recv` returns
`ERR_OK` after `tcp_abort` (`telnet.c:222-231`), where lwIP demands `ERR_ABRT`
(`Middlewares/Third_Party/LwIP/src/core/tcp.c:534`).  lwIP is called in two contexts with
`SYS_LIGHTWEIGHT_PROT` 0 (`Inc/lwipopts.h:57`), which `opt.h:200` forbids.  `HAL_ETH_Transmit`,
documented as blocking, is called with a timeout of 0 and the frame is freed while the DMA
reads it (`Src/ethernetif.c:428`).  A terminated iperf test closes connections again that are
closed already (`iperf.c:175`).

## 4. Fairness

| Module | Assumed | Why the code grants it |
|---|---|---|
| `AudioRing` | weak: main loop steps, `Fill` | the interrupts are bounded and return, so a preempted loop resumes; the I2S clock raises EXTI0 for ever |
| `AudioFifo` | weak: `Play`, the refill steps | as above |
| `SampleBuffer` | weak: the main loop's steps | as above; neither producer is assumed to produce anything |
| `Scanner` | weak: `Samples`, `p25_net_tick`, `Uptime`; `SyncLost` in a silent band | I/Q blocks and milliseconds keep coming whatever the channel holds; a decoder that is called counts `is_synced` down at every dibit, and on a silent channel nothing sets it again.  `SyncLost` needs `found_signal`, as in the code: a decoder that is not called is not assumed to progress |
| `Console` | weak: `tcp_output`; strong: `telnet_poll` of each connection, `NextPortion` | a callback returns; lwIP polls every connection ten times a second (`TCP_TMR_INTERVAL` is 50, `Inc/lwipopts.h:50`; the slow timer takes two, the poll interval is 1) however much arrives in between; the dump tests its condition after every round of lwIP, of which polls are the last part |
| `EthTx` | weak: `low_level_output` once begun, the DMA.  Not EXTI1: `GoesOnWhileCalm` has its coming as a premise | a preempted main loop resumes; the DMA runs by itself |
| `Iperf` | weak: the client's writes, its data connection, receipt and poll (together: each can happen only so often); acknowledgements of each connection | TCP delivers and acknowledges while both ends live; lwIP polls while a connection exists |
| `IqDoubleBuffer`, `P25Decode`, `RtlTcp`, `VoicePath`, `ConfigStore`, `Rle` | none | only safety is stated |

## 5. Proofs

`tlapm <module>` checks all of them.  They hold for every value of the constants that meets
the module's one assumption (`RingAssumption`, `FifoAssumption`, `IqAssumption`,
`BufferAssumption`, `DecodeAssumption`, `ScannerAssumption`, `RtlAssumption`,
`ConsoleAssumption`, `ConfigAssumption`, `RleAssumption`, `EthTxAssumption`,
`IperfAssumption`, and for `VoicePath` `PathAssumption`, the first two together: sizes are positive, a fill is smaller than the ring, a refill ends before
the player's half does and tags are more than the words that can be under way, the processor
copies at least two words per sample, timeouts are ordered like the code's, null pointers are
no objects).

| Theorem | Property | Argument |
|---|---|---|
| `RingTypeCorrect` | `TypeOK` | inductive as it stands: it says where `out_e` may stand at each point of the store |
| `RingHolds`, `RingFillsInOrder`, `RingSpoiledOnlyByWrapOrLap` | `RingHoldsBacklog`, `FillInOrder`, `SpoiledOnlyByWrapOrLap` | `IInv` = type, `RingHoldsBacklog`, and `StoredAhead` (between store and increment the slot at `out_e` holds the next sample: without it the increment could publish anything).  `TakesFromBacklog` does the modular arithmetic of the interrupt's loop once, `FreeSlot` shows that the slot at `out_e` is outside the backlog |
| `IqTypeCorrect`, `IqWholeUnlessLate`, `IqGaplessUnlessLate` | `TypeOK`, `WholeUnlessLate`, `GaplessUnlessLate` | `IInv` adds to the type what the banks hold (`BanksHoldThreeHalves`), that a punctual handler started within one sample (`TakenAtOnce`), that its copy is ahead of the writer by the slack it has built up (`CopyAhead`), and what it has copied so far (`BlockInPlace`) |
| `IqOneSeam` | `OneSeam` | `Seamed`: a copy is behind the FPGA in its bank (`Behind`), has passed it and stays ahead (`Passed`), or was left behind in a bank the FPGA has finished and is done before it returns (`Alone`); only the change from the first to the second makes a seam, and `IqAssumption`'s two words per sample forbid a way back |
| `FifoTypeCorrect`, `FifoInOrder` | `TypeOK`, `PlayedWholeInOrder` | `IInv` adds to the type where the refill and the player may be (`Control`) and which sample each word of the RAM holds: up to the end of the first half (`Starting`) and from then on (`Sounding`: the word `d` places behind the next one to be stored holds the sample sent `d` samples ago).  The shift by one word is in the definition of that place, `Store` |
| `PathImplements` | `ImplementsChannel` | `PathInv` = the two components' inductive invariants, whose steps are taken from their proofs; `Quiet` (until the player has played a word that was sent, there is no sample on the way); and `InTurn`: while the ring is intact there is a function (`Turns`) that counts the samples heard when each of the words ahead of the player has been played, from `heard` now to `read` at the last, grows by one over a word of voice and not over silence, and says which sample that word is.  The player moves that function down by one; a refill appends `HALF` words to it, by `RingHoldsBacklog` the samples whose turn it is.  The bus writes leave it alone: `AheadRefills` shows that what the RAM gains the handler loses |
| `SampleTypeCorrect` | `TypeOK` | plus: a length that was tested cannot shrink before it is reloaded |
| `SampleNothingStale` | `NothingStale` | `FreshInv`: freshness below the length, below `udp_data_rx`'s private copy of it, and below `ii_len` while a batch is being taken; an interrupt only ever replaces bytes by younger ones |
| `SampleBatches` | `BatchIsWhatWasStored` | `BatchInv`: as long as nobody hit the window, the bytes below the current level are the consecutive numbers from `mark`; if somebody did, nothing is claimed until the next reset |
| `TypeCorrect` | `TypeOK` | adds that voice is only decoded inside an LDU and where each state of the hex words ends: `voice_state` and the counters bound each other |
| `EncryptedIsNotHeard` | `EncryptedStaysMuted` | `Muted`: the header is not read twice, and every frame whose first codeword was seen is muted |
| `AlwaysGivesUp` | `GivesUp` | `Window`: up to the NID the countdown and `bit_count` add up to at most 398, so that `bit_count` cannot wrap first; `Misled`: a decoder that holds a NAC and was misled is in the NAC field of a supposed NID, which it will refuse |
| `SampledInPlace` | `DibitsInPlace` | `InFrame` gives the position in the frame as a function of `voice_state`, `bit_count` and the number of status symbols passed, so that the counter of status symbols is never out of step |
| `ScannerTypeCorrect` | `ScannerTypeOK` | no timeout exceeds `SYNC_FOUND`, a block cannot fill beyond its end |
| `ScannerParkedOnlyByReset` | `ParkedOnlyByReset` | case split over the writers of the two variables; `BlockDoesNotPark` is the only one with arithmetic |
| `ScannerCallKeepsChannel` | `CallKeepsChannel` | `HoldInv`: unless cut short or `IN_SYNC` blocks old, the signal is held and timeout plus missed blocks still add up to `IN_SYNC` |
| `RtlTypeCorrect` | `TypeOK` | the index and the counter of the loop stay in range, and the radio has what it is set to, whatever the configuration holds (`RadioHas`) |
| `RtlFirstHalfTaken` | `FirstHalfTaken` | `LoopInv`: the position of the next command, `i + 4 - cmd_mod`, runs ahead of ten bytes per command done by 0 to 4, and the last command taken lies inside the segment |
| `RtlRestored` | `Restored` | `RestoredInv`: a segment is only ever processed on an open connection, so that a session's commands disturb nothing while none is open.  `SettingsRestored` goes through the console, the scanner and the initialisation: each sets both sides or notes in `parted` which one it has left behind |
| `ConsoleTyping`, `Kept` | `ConsoleTypeOK`, `KeptForItsReader` | `SessionInv`: a session with the console to itself is the only pcb there (`Alone`) and the buffer's only reader (`SoleReader`); when the last session ends, its end is noted (`Reported`) |
| `LinesUnderstood` | `Understood` | what is left in the line buffer comes from a segment that was not a line |
| `ConfigTyping`, `Tells` | `ConfigTypeOK`, `CrcTells` | `CrcTells` is inductive together with the types: while the sector is programmed it is the configuration up to `i` and blank beyond, and erasing only turns bytes of it into erased ones |
| `Implements` | `ImplementsStore` | from `CrcTells`: a step of erasing or programming maps to `Forget` or a stutter, the CRC's to `Commit`, since then the sector is the configuration in force and had no CRC |
| `ReadsInTurn` | `ReadInTurn` | what `read_config` should find is in the sector as soon as no write is pending or running |
| `RleTyping`, `ReadsBack` | `RleTypeOK`, `ReadBack` | `ReadInv` says what the decoder *will* do with what has been written so far, without recursion: there is a set of decoder states (`Path`) that begins at its first and from each of which but the last a step leads on that reads written bytes and gives what the encoder read there (`Right`).  `Frontier` says where the last one is in each state of the encoder.  Each encoder step leaves that path right and adds at most two states (`Encode...Decodable`); each decoder step moves along it (`DecodeOnPath`), and beyond its end only for the tool's image (`DecodeAtFrontier`) |
| `EthTyping`, `SentInTurn`, `Refusals` | `EthTypeOK`, `InTurn`, `RefusedWhenFull` | `IInv` adds `Phase`: where the ring's index and the main loop's locals stand at each point of a transmission while calm.  `Full` says that the descriptor at the index is owned exactly when the ring is full, `Accept` that a frame put there keeps the order, `Oldest` what the DMA sends next |
| `IperfTyping`, `InOrder` | `IperfTypeOK`, `ToldInOrder` | `IInv` adds `Where`: what the control connection has been told in each state of the automaton, for any number of clients |

`ServicesTyping` puts the types of the five modules of `MCServices` together.

**Only model-checked.**  The liveness properties (`EverySampleHeard`, `EventuallySound`,
`Drains`, `HopsInSilence`, `DumpEnds`, `GoesOnWhileCalm`, `Served`) are outside what the proof
system handles.

## 6. What the models assume about the outside

* The audio FIFO has played one turn of silence (62 ms) before the first frame is decoded
  (`Decoder`'s guard in `VoicePath`): a receiver needs longer to find a sync pattern.
* EXTI0 finishes its refill before the player is at the last word of the half (some 30 ms of
  margin against less than one).
* A 16-bit read of the FPGA bus takes less than half an I/Q sample period.
* `-O2` as in the Makefile: `in_buffer_len -= ii_len` after `ii_len = in_buffer_len` is a
  store of zero.
* lwIP's own state (heap, lists) is not modelled, neither what a preempted operation on it
  leaves behind: `EthTx` begins where lwIP hands over a frame.
* The flash ends an erase within the three seconds that `wait_for_flash` waits; it then goes
  on without saying so (`flash_s08.c:161`).
* EXTI0 is delayed by EXTI1 for less than that margin; EXTI1 itself is preempted by nothing
  that sends.
* All bits of `scanner_channel_mask` are set, as in this build; with none set
  `scanner_next_channel` would not return (`Src/main.c:1576`).
* lwIP has room for the few bytes of a message of the iperf server: `tcp_write`'s result is ignored
  (`iperf.c:180`), so that without room the automaton would go on and the message be missing.
  Closing a null pointer, which a client that terminates before it had a data connection brings
  about (`iperf.c:176`), does nothing: it writes and reads near address 0, which is RAM.
* The Ethernet DMA meets no fatal bus error, after which the driver would refuse every frame.

## 7. What is left

* Two actors in lwIP's heap and lists, one of them preempted: it needs a model of lwIP's
  memory management, which is vendored code.
* Transmit side and channel scan of the radio driver: register sequences and counters with no
  property beyond single assignments.

## 8. Not modelled, and why

* The DSP chain (`channel_filter.c`, `fft.c`, `p25/audio_leveler.c`, `liquid_arm32/`), the
  vocoder (`mbelib/`) and the FPGA's filters (`fpga/src/cic.v`, `fir_filter.v`): floating or
  fixed point arithmetic on streams, with properties that are numeric, not behavioural.
* Error correction (Golay, Hamming): algebra over tables; `P25Decode` keeps only whether a
  header could be corrected.
* `Drivers/`, `Middlewares/`, `syscalls.c`, the reception side of `Src/ethernetif.c` and
  `Src/lwip.c`: generated or vendored.  They and the DSP libraries make up all but a few
  per cent of the repository's lines, which is why the share of lines the modules stand for is
  small although they cover the firmware's own control code.
* The console's UART and self tests, and commands that only set a variable and print it.
* The driver's error states in `EthTx`, and frames of more than one buffer.
* `ext_tuner/` (firmware of a second board), `gnuradio_rtl_driver/` (host side),
  `eagle_design/` (hardware).
* `fpga.c`'s `test_mem`, a diagnostic that overwrites the audio FIFO, and the transmit banks.
