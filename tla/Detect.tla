------------------------------- MODULE Detect -------------------------------
(***************************************************************************)
(* One `busyscout detect' (internal/detect): phase 1 asks the device with  *)
(* plain commands in one session and parses the answers, the probe of the  *)
(* operating system goes on in the same session, phase 2 uploads a helper  *)
(* (internal/helpers) to a fixed path and runs it, and the width of time_t *)
(* is derived from what was found.                                         *)
(*                                                                         *)
(* Errors of phase 1 are ignored.  After a command that timed out the next *)
(* one drops what its reader holds of the stream, skips as many bytes as   *)
(* it has sent and reads to the next prompt (TelnetSession): what it gets  *)
(* may be the end of an earlier reply, with the end of an echo before it,  *)
(* and it is parsed as if it were its own.                                 *)
(*                                                                         *)
(* Data: a text is a sequence of words, and a word is the set of those     *)
(* strings a parser searches for that occur in it; a version stands for    *)
(* the word "version" with it.  Fields that are only displayed (kernel,    *)
(* model, sub-architecture, uptime, mounts ...) are left out, the commands *)
(* that ask for them are not: they shift the stream. No parser has an      *)
(* effect on the device, so an answer is parsed when it is read; the       *)
(* parsers run in the order of the commands except for /proc/version,      *)
(* whose text is kept to the end of phase 1.                               *)
(***************************************************************************)
EXTENDS Integers, Sequences

CONSTANTS Devices,       \* the devices that may be asked, see DeviceType
          MaxTimeouts,   \* bound of the model: commands that time out
          MaxOtherRuns   \* bound of the model: what other runs do to the helper

ISAs == {"arm", "aarch64", "mips", "x86", "x86_64"}

MuslVersions == {"1.1.24", "1.2", "1.2.0", "1.2.3"}

\* machine: the words of `uname -m', which speaks of the kernel, and the ISAs it
\* runs besides; toolchain: the words of /proc/version; isa, bits, endian, float:
\* the ELF header of /bin/busybox; flags: its e_flags say so; vfp: Tag_ABI_VFP_args;
\* byteorder: /proc/cpuinfo has it; libcs: installed.  A kernel that names the
\* compiler it was built with may speak of musl, but not of its loader.
DeviceType ==
  {d \in [machine : SUBSET (STRING \ {"ld-musl"}), toolchain : SUBSET (STRING \ {"ld-musl"}),
          isa : ISAs, bits : {32, 64}, endian : {"little", "big"}, float : {"hard", "soft", ""},
          flags : BOOLEAN, vfp : BOOLEAN, byteorder : BOOLEAN,
          libcs : SUBSET {"musl", "uClibc", "glibc"}, musl : MuslVersions \cup {""},
          tools : SUBSET {"file", "od", "readelf"}] :
     d.isa = "arm" => d.bits = 32 /\ d.float # ""}

ASSUME DetectAssumption ==
  /\ Devices \subseteq DeviceType
  /\ MaxTimeouts \in Nat
  /\ MaxOtherRuns \in Nat

VARIABLES
  dev,      \* the device
  pc,       \* the command that is next, or "endianness", "phase2", "derive", "done", "failed"
  fp,       \* the fingerprint
  timeT,    \* its field TimeT
  build,    \* the text of /proc/version
  stream,   \* texts the shell has printed, prompt by prompt, not read by the client
  up,       \* the session is alive
  timeouts,
  helper,   \* on the device: /tmp/bs-helper, "absent", "partial", "whole", and executable or not
  others,   \* interferences of other runs
  shifted,  \* history: an answer began elsewhere than at its own output
  elf       \* history: what has answered with the ELF header, whole

fpVars      == <<fp, timeT, build>>
sessionVars == <<stream, up, timeouts, shifted>>
helperVars  == <<helper, others>>
vars == <<dev, pc, fpVars, sessionVars, helperVars, elf>>

NoHelper == [file |-> "absent", exec |-> FALSE]

Init ==
  /\ dev \in Devices
  /\ pc = "dial"
  /\ fp = [isa |-> "", bits |-> 0, endian |-> "", float |-> "", libc |-> "", musl |-> ""]
  /\ timeT = ""
  /\ build = <<>>
  /\ stream = <<>>
  /\ up = TRUE
  /\ timeouts = 0
  /\ helper = NoHelper
  /\ others = 0
  /\ shifted = FALSE
  /\ elf = {}

-----------------------------------------------------------------------------
(* What the device prints *)

When(b, text) == IF b THEN text ELSE <<>>

MuslLoader ==
  {"ld-musl", "musl"} \cup
  IF dev.isa # "arm" THEN {} ELSE {IF dev.float = "hard" THEN "ld-musl-armhf" ELSE "ld-musl-arm."}

FileWords ==
  CASE dev.isa = "aarch64" -> {"aarch64", "arm"}
    [] dev.isa = "x86"     -> {"80386"}
    [] dev.isa = "x86_64"  -> {"x86-64"}
    [] OTHER               -> {dev.isa}

\* The dump of od: 40 bytes, of which the last one ends it.
Dump == <<{"od"}, {"byte-40"}>>

\* The lines of dmesg that name a SoC: not the banner of the kernel, which says the
\* same as /proc/version.
Output(c) ==
  CASE c = "uname"   -> <<dev.machine>>
    [] c = "cpuinfo" -> <<dev.toolchain \cap {"arm", "mips"}>>
                        \o When("mips" \in dev.toolchain, <<{"cpu-model-MIPS"}>>)
                        \o When(dev.byteorder, <<{IF dev.endian = "little" THEN "byteorder-little" ELSE "byteorder-big"}>>)
    [] c = "version" -> <<dev.toolchain>>
    [] c = "libc"    -> When("musl" \in dev.libcs, <<MuslLoader>>)
                        \o When("uClibc" \in dev.libcs, <<{"ld-uClibc"}>>)
                        \o When("glibc" \in dev.libcs, <<{"libc.so.6"}>>)
    [] c = "dmesg"   -> <<dev.toolchain \cap {"arm", "mips"}>>
    [] c = "file"    -> When("file" \in dev.tools,
                          <<{IF dev.bits = 32 THEN "32-bit" ELSE "64-bit"},
                            {IF dev.endian = "little" THEN "lsb" ELSE "msb"}, FileWords>>)
    [] c = "od"      -> When("od" \in dev.tools, Dump)
    [] c = "readelf" -> When("readelf" \in dev.tools /\ dev.vfp,
                          <<{"Tag_ABI_VFP_args"} \cup
                            IF dev.float = "hard" THEN {"VFP-registers"} ELSE {}>>)
    [] c = "glibc"   -> When("glibc" \in dev.libcs, <<{"2.28"}>>)
    [] c = "musl"    -> When("musl" \in dev.libcs, <<{"musl"}, {dev.musl}>>)
    [] OTHER         -> <<{}>>

\* The parts of a command line a parser could take for an answer.
Echo(c) ==
  CASE c = "libc"    -> <<{"ld-uClibc"}, {"ld-musl", "musl"}>>
    [] c = "musl"    -> <<{"musl"}>>
    [] OTHER         -> <<{}>>

-----------------------------------------------------------------------------
(* TelnetClient.Execute *)

From(text, n) == SubSeq(text, n + 1, Len(text))

\* Where the text of the answer begins: after its own echo, or, when replies
\* are left in the stream, anywhere before that (no text has more than 4 words).
Starts(c) ==
  LET all == Append(stream, Echo(c) \o Output(c))
  IN IF stream = <<>> THEN {<<1, Len(Echo(c))>>}
     ELSE {s \in (1..Len(all)) \X (0..4) :
             s[2] <= IF s[1] = Len(all) THEN Len(Echo(c)) ELSE Len(all[s[1]])}

Whole(c, s) ==
  LET all == Append(stream, Echo(c) \o Output(c))
  IN [text |-> From(all[s[1]], s[2]), failed |-> FALSE, alive |-> TRUE,
      own |-> s[1] = Len(all) /\ s[2] = Len(Echo(c)), rest |-> From(all, s[1])]

\* The deadline passes, or the connection breaks, in the middle of the answer;
\* what was read is returned beside the error.
Interrupted(c, s, n, alive) ==
  LET w == Whole(c, s)
  IN [text |-> SubSeq(w.text, 1, n), failed |-> TRUE, alive |-> alive, own |-> w.own,
      rest |-> IF alive THEN <<From(w.text, n)>> \o w.rest ELSE <<>>]

\* The deadline passes before the echo has been skipped: nothing is returned.
Unanswered(c, s) ==
  LET all == Append(stream, Echo(c) \o Output(c))
  IN [text |-> <<>>, failed |-> TRUE, alive |-> TRUE, own |-> TRUE,
      rest |-> <<From(all[s[1]], s[2])>> \o From(all, s[1])]

Broken == [text |-> <<>>, failed |-> TRUE, alive |-> FALSE, own |-> TRUE, rest |-> <<>>]

\* Whether the session is alive after an error.
Outlives == IF timeouts < MaxTimeouts THEN BOOLEAN ELSE {FALSE}

Interruptions(c, s) ==
  {Interrupted(c, s, n, alive) : n \in 0..Len(Whole(c, s).text), alive \in Outlives}

Answers(c) ==
  IF ~up THEN {Broken}
  ELSE {Broken} \cup {Whole(c, s) : s \in Starts(c)} \cup (UNION {Interruptions(c, s) : s \in Starts(c)})
       \cup {Unanswered(c, s) : s \in IF TRUE \in Outlives THEN Starts(c) \cup {<<1, 0>>} ELSE {}}

\* The session after answer a.
Receive(a) ==
  /\ stream' = a.rest
  /\ up' = a.alive
  /\ timeouts' = IF a.failed /\ a.alive THEN timeouts + 1 ELSE timeouts
  /\ shifted' = (shifted \/ ~a.own)

\* A command of phase 1 or of the probe: the fingerprint is one of Parsed(a).
Ask(c, next, Parsed(_)) ==
  /\ pc = c
  /\ \E a \in Answers(c) :
       /\ fp' \in Parsed(a)
       /\ Receive(a)
       /\ elf' = IF c \in {"file", "od"} /\ c \in dev.tools /\ a.own /\ a.text = Output(c)
                 THEN elf \cup {c} ELSE elf
  /\ pc' = next
  /\ UNCHANGED <<dev, timeT, helperVars>>

\* strings.Contains.
Has(text, key) == \E i \in 1..Len(text) : key \in text[i]

\* The value of the first of several keys that occurs in the text, or `none'.
FirstOf(text, keys, values, none) ==
  IF \E i \in 1..Len(keys) : Has(text, keys[i])
  THEN values[CHOOSE i \in 1..Len(keys) :
                Has(text, keys[i]) /\ \A j \in 1..i - 1 : ~Has(text, keys[j])]
  ELSE none

-----------------------------------------------------------------------------
(* runPhase1 *)

unameMap ==
  LET arm == {"armv5l", "armv5tel", "armv6l", "armv7l", "armv8l"}
      x86 == {"i386", "i486", "i586", "i686"}
  IN  [k \in arm \cup x86 \cup {"aarch64", "mips", "mips64", "x86_64"} |->
         CASE k \in arm    -> <<"arm", 32>>
           [] k \in x86    -> <<"x86", 32>>
           [] k = "mips"   -> <<"mips", 32>>
           [] k = "mips64" -> <<"mips", 64>>
           [] OTHER        -> <<k, 64>>]

\* The iteration over a Go map takes any of the keys that occur.
ParseUname(a) ==
  LET keys == {k \in DOMAIN unameMap : Has(a.text, k)}
  IN IF keys = {} THEN {fp}
     ELSE {[fp EXCEPT !.isa = unameMap[k][1], !.bits = unameMap[k][2]] : k \in keys}

ParseCPUInfo(a) ==
  LET mips == Has(a.text, "cpu-model-MIPS") /\ fp.isa = ""
  IN {[fp EXCEPT !.endian = FirstOf(a.text, <<"byteorder-little", "byteorder-big">>,
                                    <<"little", "big">>, fp.endian),
                 !.isa  = IF mips THEN "mips" ELSE @,
                 !.bits = IF mips THEN 32 ELSE @]}

ParseLibc(a) ==
  LET libc == FirstOf(a.text, <<"ld-musl", "ld-uClibc", "libc.so.6">>,
                      <<"musl", "uClibc", "glibc">>, fp.libc)
  IN {[fp EXCEPT !.libc = libc,
                 !.float = IF Has(a.text, "ld-musl") /\ @ = ""
                           THEN FirstOf(a.text, <<"ld-musl-armhf", "ld-musl-arm.">>, <<"hard", "soft">>, @)
                           ELSE @]}

ParseFileOutput(a) ==
  {[fp EXCEPT !.bits   = FirstOf(a.text, <<"32-bit", "64-bit">>, <<32, 64>>, @),
              !.endian = FirstOf(a.text, <<"lsb", "msb">>, <<"little", "big">>, @),
              !.isa    = FirstOf(a.text, <<"aarch64", "arm", "mips", "80386", "x86-64">>,
                                 <<"aarch64", "arm", "mips", "x86", "x86_64">>, @)]}

\* Mutant: the dump completes what is known and corrects nothing.
ODCompletes(a) ==
  IF ~Has(a.text, "byte-40") THEN {fp}
  ELSE {[fp EXCEPT !.bits = IF @ = 0 THEN dev.bits ELSE @, !.endian = dev.endian,
                   !.isa = IF @ = "" THEN dev.isa ELSE @]}

\* Fields are found by position: words of an echo before the dump shift them,
\* and bytes of other fields are taken for the endianness, the machine and the
\* flags (never for the class, the bytes before it are the magic number).
Misread ==
  LET floats == IF fp.float = "" THEN {"", "hard", "soft"} ELSE {fp.float}
  IN {[fp EXCEPT !.endian = e, !.isa = i, !.float = g] :
        e \in {fp.endian, "little", "big"}, i \in {fp.isa} \cup ISAs, g \in floats}

\* e_machine has no big-endian case for x86, e_flags is for little-endian ARM.
ParseODOutput(a) ==
  IF ~Has(a.text, "byte-40") THEN {fp}
  ELSE IF a.text # Dump THEN Misread
  ELSE {[fp EXCEPT !.bits = dev.bits, !.endian = dev.endian, !.isa = dev.isa,
                   !.float = IF dev.isa = "arm" /\ @ = "" /\ dev.endian = "little" /\ dev.flags
                             THEN dev.float ELSE @]}

ParseReadelfOutput(a) ==
  {[fp EXCEPT !.float = FirstOf(a.text, <<"VFP-registers", "Tag_ABI_VFP_args">>,
                                <<"hard", "soft">>, @)]}

Keep(a) == {fp}

\* newTelnetClient.
Dial ==
  /\ pc = "dial"
  /\ pc' \in {"uname", "failed"}
  /\ UNCHANGED <<dev, fpVars, sessionVars, helperVars, elf>>

AskUname   == Ask("uname", "cpuinfo", ParseUname) /\ UNCHANGED build
AskCPUInfo == Ask("cpuinfo", "version", ParseCPUInfo) /\ UNCHANGED build
AskLibc    == Ask("libc", "hisi", ParseLibc) /\ UNCHANGED build
AskFile    == Ask("file", "od", ParseFileOutput) /\ UNCHANGED build
AskOD      == Ask("od", "readelf", ParseODOutput) /\ UNCHANGED build
AskReadelf == Ask("readelf", "procversion", ParseReadelfOutput) /\ UNCHANGED build

\* The text is kept; it is parsed at the end.
AskVersion ==
  /\ pc = "version"
  /\ \E a \in Answers("version") : Receive(a) /\ build' = a.text
  /\ pc' = "libc"
  /\ UNCHANGED <<dev, fp, timeT, helperVars, elf>>

\* The commands of parseSoC.
AskSoC ==
  /\ \/ Ask("hisi", "umap", Keep)
     \/ Ask("umap", "dmesg", Keep)
     \/ Ask("dmesg", "file", Keep)
  /\ UNCHANGED build

\* The fallback when nothing before has given an ISA.
ParseProcVersion ==
  /\ pc = "procversion"
  /\ fp' = IF fp.isa # "" THEN fp
           ELSE LET isa == FirstOf(build, <<"aarch64", "arm", "mips", "x86_64", "i686">>,
                                   <<"aarch64", "arm", "mips", "x86_64", "x86">>, "")
                IN [fp EXCEPT !.isa = isa,
                              !.bits = IF isa = "" THEN @
                                       ELSE IF isa \in {"aarch64", "x86_64"} THEN 64 ELSE 32]
  /\ build' = <<>>
  /\ pc' = "busybox"
  /\ UNCHANGED <<dev, timeT, sessionVars, helperVars, elf>>

-----------------------------------------------------------------------------
(* probeOS and the end of runPhase1 *)

Versions ==
  [v \in MuslVersions \cup {"2.28"} |->
     CASE v = "1.1.24" -> <<1, 1, 24>>
       [] v = "1.2"    -> <<1, 2>>
       [] v = "1.2.0"  -> <<1, 2, 0>>
       [] v = "1.2.3"  -> <<1, 2, 3>>
       [] v = "2.28"   -> <<2, 28>>]

\* The number after `version', or "".
VersionIn(text) ==
  IF \E v \in DOMAIN Versions : Has(text, v) THEN CHOOSE v \in DOMAIN Versions : Has(text, v) ELSE ""

\* Mutant: any banner with a version number is taken.
ParseAnyVersion(a) ==
  IF a.failed \/ VersionIn(a.text) = "" THEN {fp}
  ELSE {[fp EXCEPT !.musl = VersionIn(a.text)]}

\* The banner must identify itself as musl.
ParseMuslVersion(a) ==
  IF a.failed \/ ~Has(a.text, "musl") \/ VersionIn(a.text) = "" THEN {fp}
  ELSE {[fp EXCEPT !.musl = VersionIn(a.text)]}

\* The answers are only displayed.
AskOS ==
  /\ \/ Ask("busybox", "model", Keep)
     \/ Ask("model", "glibc", Keep)
     \/ Ask("glibc", IF fp.libc = "musl" THEN "musl" ELSE "meminfo", Keep)
     \/ Ask("meminfo", "df", Keep)
     \/ Ask("df", "mounts", Keep)
     \/ Ask("mounts", "uptime", Keep)
     \/ Ask("uptime", "tools", Keep)
     \/ Ask("tools", "endianness", Keep)
  /\ UNCHANGED build

AskMuslVersion == Ask("musl", "meminfo", ParseMuslVersion) /\ UNCHANGED build

\* The default, and the only error of phase 1.
EndPhase1 ==
  /\ pc = "endianness"
  /\ fp' = [fp EXCEPT !.endian = IF @ # "" \/ fp.isa = "" THEN @
                                 ELSE IF fp.isa = "mips" THEN "big" ELSE "little"]
  /\ pc' = IF fp.isa = "" THEN "failed" ELSE "phase2"
  /\ stream' = <<>>    \* tc.Close
  /\ up' = FALSE
  /\ UNCHANGED <<dev, timeT, build, timeouts, shifted, helperVars, elf>>

-----------------------------------------------------------------------------
(* runPhase2 and the helper *)

needsPhase2 == (fp.isa = "arm" /\ fp.float = "") \/ fp.bits = 0

\* HelperForISALE and HelperForISA; musl and uClibc have a variant for ARM only.
HelperFor(isa, endian, libc) ==
  [isa |-> isa,
   endian |-> IF isa = "mips" THEN endian ELSE "little",
   libc |-> IF isa = "mips" THEN "uClibc"
            ELSE IF isa = "arm" /\ libc \in {"uClibc", "musl"} THEN libc ELSE "glibc"]

\* A static binary runs when the kernel knows its instructions.
Runs(h) == h.isa \in dev.machine \cup {dev.isa} /\ h.endian = dev.endian

\* main of elfreader.c prints key=value lines.  e_machine is put together as a
\* little-endian number whatever the file is; the scan of .ARM.attributes ends
\* at the length of its first subsection and prints nothing.
HelperOutput ==
  [class |-> dev.bits, endian |-> dev.endian,
   machine |-> IF dev.endian = "little" THEN dev.isa ELSE "unknown",
   float |-> IF dev.endian = "little" /\ dev.isa = "arm" /\ dev.flags THEN dev.float ELSE ""]

\* Mutant: an answer without a machine is an unknown machine.
ParseHelperAnyway(out) ==
  IF out = {} THEN [fp EXCEPT !.isa = ""]
  ELSE LET h == CHOOSE x \in out : TRUE
       IN [fp EXCEPT !.bits = h.class, !.endian = h.endian,
                     !.isa = IF h.machine \in ISAs THEN h.machine ELSE "",
                     !.float = IF h.float = "" THEN @ ELSE h.float]

\* Mutant: the machine is not mapped.
ParseHelperRaw(out) ==
  IF out = {} THEN fp
  ELSE LET h == CHOOSE x \in out : TRUE
       IN [fp EXCEPT !.bits = h.class, !.endian = h.endian, !.isa = h.machine,
                     !.float = IF h.float = "" THEN @ ELSE h.float]

\* parseHelperOutput and mapMachineToISA; out is empty when the helper could not
\* be run and the shell has printed a diagnostic.
ParseHelperOutput(out) ==
  IF out = {} THEN fp
  ELSE LET h == CHOOSE x \in out : TRUE
       IN [fp EXCEPT !.bits = h.class, !.endian = h.endian,
                     !.isa = IF h.machine \in ISAs THEN h.machine ELSE "",
                     !.float = IF h.float = "" THEN @ ELSE h.float]

Phase2 ==
  /\ pc = "phase2"
  /\ \/ ~needsPhase2 /\ pc' = "derive"
     \/ needsPhase2 /\ pc' \in {"upload", "derive"}    \* the session opens or not
  /\ UNCHANGED <<dev, fpVars, sessionVars, helperVars, elf>>

\* UploadData: the first command truncates, the others append.  A file that was
\* there keeps its mode; another run may change it between two commands.
UploadHelper ==
  /\ \/ pc = "upload" /\ helper' = [helper EXCEPT !.file = "partial"] /\ pc' = "append"
     \/ /\ pc = "append"
        /\ \E f \in IF others = 0 THEN {"whole"} ELSE {"partial", "whole"} :
             helper' = [helper EXCEPT !.file = f]
        /\ pc' = "chmod"
     \/ /\ pc \in {"upload", "append"}
        /\ helper' \in {helper, [helper EXCEPT !.file = "partial"]}
        /\ pc' = "derive"
  /\ UNCHANGED <<dev, fpVars, sessionVars, others, elf>>

\* Execute: a refusal of chmod is output, not an error.
ChmodHelper ==
  /\ pc = "chmod"
  /\ \/ helper' = [helper EXCEPT !.exec = (@ \/ helper.file # "absent")] /\ pc' = "run"
     \/ helper' \in {helper, [helper EXCEPT !.exec = (@ \/ helper.file # "absent")]} /\ pc' = "derive"
  /\ UNCHANGED <<dev, fpVars, sessionVars, others, elf>>

\* The helper is run, removed, and its output parsed; an error of the rm is ignored.
RunHelper ==
  /\ pc = "run"
  /\ LET printed == IF helper = [file |-> "whole", exec |-> TRUE]
                       /\ Runs(HelperFor(fp.isa, fp.endian, fp.libc))
                    THEN {HelperOutput} ELSE {}
     IN \/ /\ fp' = ParseHelperOutput(printed)
           /\ elf' = IF printed = {} THEN elf ELSE elf \cup {"helper"}
           /\ helper' \in {helper, NoHelper}
        \/ UNCHANGED <<fp, elf, helper>>
  /\ pc' = "derive"
  /\ UNCHANGED <<dev, timeT, build, sessionVars, others>>

\* Another run on the same device writes, completes or removes the same path.
OtherRun ==
  /\ others < MaxOtherRuns
  /\ pc \in {"upload", "append", "chmod", "run"}
  /\ others' = others + 1
  /\ \E h \in [file : {"absent", "partial", "whole"}, exec : BOOLEAN] :
       /\ h # helper
       /\ h.file = "absent" => ~h.exec
       /\ helper' = h
  /\ UNCHANGED <<dev, pc, fpVars, sessionVars, elf>>

-----------------------------------------------------------------------------
(* deriveTimeT *)

Component(v, i) == IF i <= Len(v) THEN v[i] ELSE 0

\* compareVersions: missing components count as 0.
compareVersions(a, b) ==
  LET n == IF Len(a) > Len(b) THEN Len(a) ELSE Len(b)
      differ == {i \in 1..n : Component(a, i) # Component(b, i)}
  IN IF differ = {} THEN 0
     ELSE LET i == CHOOSE j \in differ : \A m \in differ : j <= m
          IN IF Component(a, i) < Component(b, i) THEN -1 ELSE 1

muslHasTime64(version) == compareVersions(Versions[version], <<1, 2, 0>>) >= 0

DeriveTimeT ==
  /\ pc = "derive"
  /\ timeT' = IF fp.bits = 64 THEN "64-bit"
              ELSE IF fp.bits # 32 \/ fp.musl = "" THEN ""
              ELSE IF muslHasTime64(fp.musl) THEN "64-bit" ELSE "32-bit"
  /\ pc' = "done"
  /\ UNCHANGED <<dev, fp, build, sessionVars, helperVars, elf>>

Done == pc \in {"done", "failed"} /\ UNCHANGED vars

Next ==
  \/ Dial \/ AskUname \/ AskCPUInfo \/ AskVersion \/ AskLibc \/ AskSoC \/ AskFile \/ AskOD
  \/ AskReadelf \/ ParseProcVersion \/ AskOS \/ AskMuslVersion \/ EndPhase1
  \/ Phase2 \/ UploadHelper \/ ChmodHelper \/ RunHelper \/ OtherRun \/ DeriveTimeT \/ Done

Spec == Init /\ [][Next]_vars

-----------------------------------------------------------------------------
(* Properties *)

TypeOK ==
  /\ dev \in Devices
  /\ pc \in {"dial", "uname", "cpuinfo", "version", "libc", "hisi", "umap", "dmesg", "file", "od",
            "readelf", "procversion", "busybox", "model", "glibc", "musl", "meminfo", "df", "mounts",
            "uptime", "tools", "endianness", "phase2", "upload", "append", "chmod", "run", "derive",
            "done", "failed"}
  /\ fp \in [isa : ISAs \cup {""}, bits : {0, 32, 64}, endian : {"", "little", "big"},
             float : {"", "hard", "soft"}, libc : {"", "musl", "uClibc", "glibc"},
             musl : DOMAIN Versions \cup {""}]
  /\ timeT \in {"", "32-bit", "64-bit"}
  /\ Len(stream) <= timeouts /\ timeouts \in 0..MaxTimeouts
  /\ helper \in [file : {"absent", "partial", "whole"}, exec : BOOLEAN]
  /\ others \in 0..MaxOtherRuns
  /\ elf \subseteq {"file", "od", "helper"}

\* The width of time_t: musl has 64 bits everywhere since 1.2.0.
DeviceTimeT == IF dev.bits = 64 \/ dev.musl \in {"1.2", "1.2.0", "1.2.3"} THEN "64-bit" ELSE "32-bit"

\* The kernel speaks of itself and may run another userland, keys of unameMap
\* overlap, and cpuinfo and defaults are guesses: once one source that has read
\* the ELF header has answered, the report is that header, whatever was said
\* before or is said after it, and a width of time_t that is stated is the right
\* one; the float ABI of an ARM device is its own even without such a source.
\* A report without an ISA is an error.  Reports with an answer that was read at
\* the wrong place of the stream are excluded.
ReportIsTheDevices ==
  pc = "done" /\ ~shifted =>
    /\ fp.isa # ""
    /\ elf # {} => /\ fp.isa = dev.isa /\ fp.bits = dev.bits /\ fp.endian = dev.endian
                   /\ timeT \in {"", DeviceTimeT}
    /\ dev.isa = "arm" /\ fp.float # "" => fp.float = dev.float

\* "a bare `Version N' line from some other binary must not be reported as a musl
\* version" (osprobe.go:124): also after a timeout, when what is read is the
\* banner of glibc or the echo of another command, the version decides about
\* time_t only when the loader of musl has said it.  /proc/version may have one
\* beside the name of a compiler for musl, but has been read by then.
MuslVersionIsMusls == fp.musl # "" => "musl" \in dev.libcs /\ fp.musl = dev.musl

\* Phase 2 is an addition (detect.go:55): whatever another run does to the helper,
\* and wherever it fails, what phase 1 has found is still there after it.
PhaseTwoOnlyAdds ==
  [][pc = "run" /\ ~shifted =>
       /\ fp'.isa = fp.isa
       /\ fp.bits # 0 => fp'.bits = fp.bits
       /\ fp.float # "" => fp'.float = fp.float]_vars

\* time_t "is only stated when it can be established with certainty, because a
\* wrong answer is worse than none", and "the musl version is the deciding fact"
\* where there is one (detect.go:73-78): a device whose musl has told its version
\* is reported with the width of that version.
TimeTIsTheDevices == pc = "done" /\ fp.musl # "" => timeT \in {"", DeviceTimeT}
=============================================================================
