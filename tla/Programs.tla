------------------------------ MODULE Programs ------------------------------
(***************************************************************************)
(* Six programs that have nothing to do with each other, each a module of  *)
(* its own: the three of ethernet-study, the start of the plugs of a       *)
(* process, and two functions over the bytes of a frame, the frame check   *)
(* sequence and the checksums.  A behavior is one of them, run once.       *)
(***************************************************************************)
EXTENDS Integers, Sequences

CONSTANTS
    X, MaxCycle, Cycles,            \* Backoff, Hub and Switch
    N,                              \* Plugs
    Data,                           \* Crc32
    IpHeaders, Messages             \* Checksum

\* With ranges up to 2^30 the model takes the program's steps for the first 31 collisions of each
\* device, for which the program's ints suffice (binexpback.c:81).
ASSUME ProgramsAssumption ==
    /\ X \in Nat
    /\ Cycles \in Nat
    /\ MaxCycle \in 0 .. 30
    /\ N \in Nat \ {0}

\* Headers have 20 bytes and no checksum yet.
ASSUME BytesAssumption ==
    /\ Data \subseteq Seq(0 .. 255)
    /\ Messages \subseteq Seq(0 .. 255)
    /\ IpHeaders \subseteq Seq(0 .. 255)
    /\ \A h \in IpHeaders : Len(h) = 20 /\ h[1] % 16 = 5 /\ h[11] = 0 /\ h[12] = 0

VARIABLES
    program,                                        \* the one that is run
    ahead, timecycle, devicesSent, received,        \* Backoff
    time, i, framesSent, framesDenied,              \* Hub and Switch
    collidecount, alone,                            \* Hub
    collided, got, strayed,                         \* Switch
    pc, k, plug, open,                              \* Plugs
    buf, p, crc,                                    \* Crc32
    kind, octets, damaged, s, sum                   \* Checksum

B == INSTANCE Backoff
H == INSTANCE Hub
S == INSTANCE Switch
P == INSTANCE Plugs
C == INSTANCE Crc32
K == INSTANCE Checksum

\* The two cases of Waits of Backoff are the rounding of a random byte, as far as it can be
\* computed here.
ASSUME RoundingAssumption ==
    \A cycle \in 0 .. 23 :
        {(byte * 2 ^ cycle + 128) \div 256 : byte \in 0 .. 255} =
            IF cycle < 8 THEN 0 .. 2 ^ cycle ELSE {byte * 2 ^ (cycle - 8) : byte \in 0 .. 255}

\* What takes an induction to prove: powers of two are numbers.
ASSUME PowerAssumption == \A cycle \in 0 .. 30 : 2 ^ cycle \in Nat

\* What takes a computation to see: the table of crc32.c is right, four bytes of ones leave
\* the value of Magic, and a byte has eight bits.
ASSUME TableAssumption ==
    /\ C!TableRight
    /\ C!Bits(C!Bits(C!Bits(C!Bits(C!Ones)))) = C!Magic
    /\ \A byte \in 0 .. 255 : C!BitsOf(byte) \subseteq C!Low

backoffVars == <<ahead, timecycle, devicesSent, received>>
counters == <<time, i, framesSent, framesDenied>>
hubOnly == <<collidecount, alone>>
switchOnly == <<collided, got, strayed>>
plugVars == <<pc, k, plug, open>>
crcVars == <<buf, p, crc>>
sumVars == <<kind, octets, damaged, s, sum>>
vars == <<program, backoffVars, counters, hubOnly, switchOnly, plugVars, crcVars, sumVars>>

\* What is not run has nothing to do.
Init ==
    /\ program \in {"binexpback", "hub", "switch", "plugs", "crc32", "checksum"}
    /\ H!Init /\ S!Init /\ P!Init
    /\ IF program = "binexpback" THEN B!Init
       ELSE ahead = <<>> /\ timecycle = <<>> /\ devicesSent = X /\ received = {}
    /\ IF program = "crc32" THEN C!Init ELSE buf = <<>> /\ p = 0 /\ crc = C!Ones
    /\ IF program = "checksum" THEN K!Init
       ELSE kind = "none" /\ octets = <<>> /\ damaged = FALSE /\ s = 0 /\ sum = 0

studyVars == <<backoffVars, counters, hubOnly, switchOnly>>
byteVars == <<crcVars, sumVars>>

RunsBackoff ==
    /\ program = "binexpback" /\ B!Next
    /\ UNCHANGED <<program, counters, hubOnly, switchOnly, plugVars, byteVars>>
RunsHub ==
    /\ program = "hub" /\ H!Next
    /\ UNCHANGED <<program, backoffVars, switchOnly, plugVars, byteVars>>
RunsSwitch ==
    /\ program = "switch" /\ S!Next
    /\ UNCHANGED <<program, backoffVars, hubOnly, plugVars, byteVars>>
RunsPlugs == program = "plugs" /\ P!Next /\ UNCHANGED <<program, studyVars, byteVars>>
RunsCrc32 == program = "crc32" /\ C!Next /\ UNCHANGED <<program, studyVars, plugVars, sumVars>>
RunsChecksum == program = "checksum" /\ K!Next /\ UNCHANGED <<program, studyVars, plugVars, crcVars>>

Next == RunsBackoff \/ RunsHub \/ RunsSwitch \/ RunsPlugs \/ RunsCrc32 \/ RunsChecksum

Fairness ==
    /\ program = "binexpback" => B!Fairness
    /\ program = "plugs" => P!Fairness

Spec == Init /\ [][Next]_vars /\ Fairness

-----------------------------------------------------------------------------
(* The properties of the modules.                                          *)

\* No device of the backoff study waits for a time that has passed.
NotStranded == program = "binexpback" => B!NotStranded

\* Every device of the backoff study is received in the end.
AllReceived == program = "binexpback" => B!AllReceived

\* The hub's statistics account for every frame.
HubAccounts == program = "hub" => H!HubAccounts

\* Only the last device of the switch study may miss its aim.
OnlyLastMisaims == S!OnlyLastMisaims

\* The switch's statistics account for every frame, as long as none goes astray.
SwitchAccounts == program = "switch" => S!SwitchAccounts

\* The plugs of a process that has ended end.
PlugsEnd == P!PlugsEnd

\* A running process can tell that its plug has ended.
PlugEndIsSeen == P!PlugEndIsSeen

\* The table-driven function is the one its comment describes.
CrcRight == C!CrcRight

\* A frame with its check sequence is told by the value of the register.
Residue == C!Residue

\* The loops compute the Internet checksum.
ChecksumRight == program = "checksum" => K!ChecksumRight

\* A header with a damaged bit, the four of its length apart, is refused.
DamageSeen == program = "checksum" => K!DamageSeen

=============================================================================
