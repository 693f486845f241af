------------------------------ MODULE ConfigStore ------------------------------
(***************************************************************************)
(* The configuration (globals.c): the copy in RAM, its image in the first  *)
(* sector of the serial flash (flash_s08.c) and the pending commands       *)
(* write_config and read_config (command.c).                               *)
(*                                                                         *)
(* A write erases the sector, in no certain order, and programs it byte by *)
(* byte, the CRC last, while the main loop waits; the power may fail       *)
(* between any two bytes.                                                  *)
(* A byte is the set of its bits that are one: erasing sets them all,      *)
(* programming can only clear them.  The CRC is taken to be without        *)
(* collisions: it is the set of the one configuration it was computed      *)
(* from, empty when erased, with more members when one was programmed over *)
(* another.                                                                *)
(***************************************************************************)
EXTENDS Integers

CONSTANTS
  BITS,     \* the bits of a byte
  SIZE,     \* bytes of the configuration, without the CRC
  Default   \* reset_config_to_defaults

Bytes == SUBSET BITS
Erased == BITS
Configs == [1 .. SIZE -> Bytes]

ASSUME ConfigAssumption ==
  /\ SIZE \in Nat \ {0}
  /\ Default \in Configs

VARIABLES
  configuration, crc32,    \* RAM
  sector, sector_crc,      \* flash
  erasing,                 \* an erase has been started and its end not been seen
  i,                       \* next byte to program, SIZE + 1 for the CRC, 0 if none
  do_write_config, do_read_config,
  expected,                \* history: what the pending read_config should find, by its time
  awaits,                  \* history: did it find write_config pending when it was typed?
  crossed                  \* history: was write_config typed after it?

ram == <<configuration, crc32>>
flash == <<sector, sector_crc>>
pending == <<do_write_config, do_read_config>>
history == <<expected, awaits, crossed>>
write == <<erasing, i>>
config_vars == <<ram, flash, write, pending, history>>

crc32_range(c) == {c}

Valid == sector_crc = crc32_range(sector)

\* The configuration the sector holds, as a set; empty if the CRC is wrong.
Stored == IF Valid THEN {sector} ELSE {}

Writing == erasing \/ i # 0

-----------------------------------------------------------------------------

(* A new board: the sector is erased.  init_globals does not read it.      *)
ConfigInit ==
  /\ configuration = Default
  /\ crc32 = {}
  /\ sector = [n \in 1 .. SIZE |-> Erased]
  /\ sector_crc = {}
  /\ erasing = FALSE
  /\ i = 0
  /\ do_write_config = FALSE
  /\ do_read_config = FALSE
  /\ expected = {}
  /\ awaits = FALSE
  /\ crossed = FALSE

(* A console command changes a setting, byte by byte the smallest change.  *)
Set ==
  /\ ~Writing
  /\ \E n \in 1 .. SIZE, b \in Bytes : configuration' = [configuration EXCEPT ![n] = b]
  /\ UNCHANGED <<crc32, flash, write, pending, history>>

TypeWrite ==
  /\ ~Writing
  /\ do_write_config' = TRUE
  /\ crossed' = (crossed \/ do_read_config)
  /\ UNCHANGED <<ram, flash, write, do_read_config, expected, awaits>>

(* A read_config typed again while it is pending is one read_config.       *)
TypeRead ==
  /\ ~Writing
  /\ do_read_config' = TRUE
  /\ expected' = Stored
  /\ awaits' = do_write_config
  /\ crossed' = (crossed /\ do_read_config)
  /\ UNCHANGED <<ram, flash, write, do_write_config>>

-----------------------------------------------------------------------------
(* write_configuration_to_flash.                                           *)

BeginWrite ==
  /\ ~Writing
  /\ do_write_config
  /\ do_write_config' = FALSE
  /\ crc32' = crc32_range(configuration)
  /\ erasing' = TRUE
  /\ UNCHANGED <<configuration, flash, i, do_read_config, history>>

EraseByte ==
  /\ erasing
  /\ \E n \in 1 .. SIZE : sector' = [sector EXCEPT ![n] = Erased]
  /\ UNCHANGED <<ram, sector_crc, write, pending, history>>

EraseCrc ==
  /\ erasing
  /\ sector_crc' = {}
  /\ UNCHANGED <<ram, sector, write, pending, history>>

\* Mutant: programming does not wait for the erase.
Blank_Any == TRUE

\* Mutant: the erase reaches the configuration only.
Blank_ButCrc == sector = [n \in 1 .. SIZE |-> Erased]

Blank ==
  /\ sector = [n \in 1 .. SIZE |-> Erased]
  /\ sector_crc = {}

(* wait_for_flash returns.                                                 *)
EraseDone ==
  /\ erasing
  /\ Blank
  /\ erasing' = FALSE
  /\ i' = 1
  /\ UNCHANGED <<ram, flash, pending, history>>

ProgramByte ==
  /\ i \in 1 .. SIZE
  /\ sector' = [sector EXCEPT ![i] = @ \cap configuration[i]]
  /\ i' = i + 1
  /\ UNCHANGED <<ram, sector_crc, erasing, pending, history>>

\* Mutant: the flash is not taken to be idle again.
ProgramCrc_GoesOn ==
  /\ i = SIZE + 1
  /\ sector_crc' = sector_crc \cup crc32
  /\ i' = i + 1
  /\ UNCHANGED <<ram, sector, erasing, pending, history>>

ProgramCrc ==
  /\ i = SIZE + 1
  /\ sector_crc' = sector_crc \cup crc32
  /\ i' = 0
  /\ expected' = IF awaits THEN {sector} ELSE expected
  /\ awaits' = FALSE
  /\ UNCHANGED <<ram, sector, erasing, pending, crossed>>

-----------------------------------------------------------------------------

\* Mutant: read_config does not wait for its turn.
MayRead_Any == do_read_config

(* command_tick looks at write_config first.                               *)
MayRead == do_read_config /\ ~do_write_config

(* The sector is read into the configuration in force; that its CRC is     *)
(* wrong is returned and ignored.                                          *)
ReadConfig ==
  /\ ~Writing
  /\ MayRead
  /\ do_read_config' = FALSE
  /\ configuration' = sector
  /\ crc32' = sector_crc
  /\ expected' = {}
  /\ awaits' = FALSE
  /\ crossed' = FALSE
  /\ UNCHANGED <<flash, write, do_write_config>>

(* Power fails and comes back.                                             *)
PowerLoss ==
  /\ configuration' = Default
  /\ crc32' = {}
  /\ erasing' = FALSE
  /\ i' = 0
  /\ do_write_config' = FALSE
  /\ do_read_config' = FALSE
  /\ expected' = {}
  /\ awaits' = FALSE
  /\ crossed' = FALSE
  /\ UNCHANGED flash

-----------------------------------------------------------------------------

ConfigCommand == Set \/ TypeWrite \/ TypeRead
ConfigWrite == BeginWrite \/ EraseByte \/ EraseCrc \/ EraseDone \/ ProgramByte \/ ProgramCrc

ConfigNext == ConfigCommand \/ ConfigWrite \/ ReadConfig \/ PowerLoss

ConfigSpec == ConfigInit /\ [][ConfigNext]_config_vars

-----------------------------------------------------------------------------

(* Types; the programming of the sector stays inside it.                   *)
ConfigTypeOK ==
  /\ configuration \in Configs
  /\ crc32 \subseteq Configs
  /\ sector \in Configs
  /\ sector_crc \subseteq Configs
  /\ i \in 0 .. SIZE + 1
  /\ erasing \in BOOLEAN
  /\ do_write_config \in BOOLEAN /\ do_read_config \in BOOLEAN
  /\ awaits \in BOOLEAN /\ crossed \in BOOLEAN
  /\ expected \subseteq Configs

(* What makes the CRC tell: outside of programming, a sector that has one  *)
(* differs from the configuration it was computed from in erased bytes     *)
(* only; while programming it has none, and the sector is the              *)
(* configuration in force up to the next byte, blank from there.           *)
CrcTells ==
  /\ erasing => i = 0
  /\ Writing => crc32 = crc32_range(configuration)
  /\ i = 0 => sector_crc = {} \/ \E c \in Configs :
       sector_crc = crc32_range(c) /\ \A n \in 1 .. SIZE : sector[n] \in {c[n], Erased}
  /\ i > 0 =>
       /\ sector_crc = {}
       /\ \A n \in 1 .. SIZE : sector[n] = IF n < i THEN configuration[n] ELSE Erased

(* The flash implements a store that is written all or nothing: whatever a *)
(* loss of power leaves in the sector is either the last configuration     *)
(* saved, whole, or is known by its CRC not to be one                      *)
(* (flash_write_blocking; the CRC is the last field of config_t).          *)
NV == INSTANCE NonVolatile WITH
        inForce <- configuration, stored <- Stored, saving <- Writing

ImplementsStore == NV!Spec

(* read_config, which is put off to the main loop, gives what was saved    *)
(* when it was typed, a pending write_config included: unless write_config *)
(* is typed after it and overtakes it.                                     *)
ReadInTurn ==
  [][ReadConfig /\ ~crossed =>
       ~awaits /\ (expected # {} => expected = {configuration'})]_config_vars
=============================================================================
