---------------------------- MODULE DetectProofs ----------------------------
(***************************************************************************)
(* Theorems about Detect, for all devices of DeviceType and any number of  *)
(* timeouts and of interferences of other runs.                            *)
(***************************************************************************)
EXTENDS Detect, SequenceTheorems, TLAPS

USE DetectAssumption

-----------------------------------------------------------------------------
(* Texts *)

\* What is looked for in a text.
Keys ==
  {"ld-uClibc", "ld-musl", "musl", "ld-musl-armhf", "ld-musl-arm.", "libc.so.6",
   "Tag_ABI_VFP_args", "VFP-registers",
   "cpu-model-MIPS", "byteorder-little", "byteorder-big", "32-bit", "64-bit", "lsb", "msb",
   "aarch64", "arm", "mips", "80386", "x86-64", "od", "byte-40", "2.28"}

Words == SUBSET (STRING \cup Keys \cup MuslVersions \cup {""})
Texts == Seq(Words)

VersionNames == MuslVersions \cup {"2.28"}

\* What a text tells of musl: "loader", that it does not name the loader;
\* "version", that when it says "musl" and a version, it is the device's.
Told(k, t) ==
  /\ k = "loader"  => \A i \in 1..Len(t) : "ld-musl" \notin t[i]
  /\ k = "version" => \A i, j \in 1..Len(t) : \A v \in VersionNames :
                        "musl" \in t[i] /\ v \in t[j] => "musl" \in dev.libcs /\ v = dev.musl

\* What a word that command c or its echo prints says of musl and of the float ABI.
WordTold(c, w) ==
  /\ w \in Words
  /\ c # "libc" => "ld-musl" \notin w
  /\ c \notin {"uname", "version", "libc", "musl"} => "musl" \notin w
  /\ c = "libc" => \A v \in VersionNames : v \notin w
  /\ c = "musl" => \A v \in VersionNames : v \in w => "musl" \in dev.libcs /\ v = dev.musl
  /\ c = "libc" /\ dev.isa = "arm" =>
       /\ "ld-musl-armhf" \in w => dev.float = "hard"
       /\ "ld-musl-arm." \in w => dev.float # "hard"
  /\ c = "readelf" =>
       /\ "VFP-registers" \in w => dev.float = "hard"
       /\ "Tag_ABI_VFP_args" \in w /\ dev.float = "hard" => "VFP-registers" \in w

WordsTold(c, t) == t \in Texts /\ \A i \in 1..Len(t) : WordTold(c, t[i])

LEMMA VersionsDomain == DOMAIN Versions = VersionNames
BY DEF Versions, VersionNames

LEMMA DeviceFacts ==
  ASSUME dev \in Devices
  PROVE  /\ dev.machine \in Words /\ dev.toolchain \in Words
         /\ "ld-musl" \notin dev.machine /\ "ld-musl" \notin dev.toolchain
         /\ dev.isa \in ISAs /\ dev.bits \in {32, 64} /\ dev.endian \in {"little", "big"}
         /\ dev.float \in {"hard", "soft", ""} /\ dev.flags \in BOOLEAN
         /\ dev.libcs \in SUBSET {"musl", "uClibc", "glibc"}
         /\ dev.musl \in MuslVersions \cup {""}
         /\ dev.isa = "arm" => dev.bits = 32 /\ dev.float # ""
<1>1. dev \in DeviceType
  BY DetectAssumption
<1>2. /\ dev.machine \in SUBSET (STRING \ {"ld-musl"})
      /\ dev.toolchain \in SUBSET (STRING \ {"ld-musl"})
  BY <1>1 DEF DeviceType
<1>3. /\ dev.isa \in ISAs /\ dev.bits \in {32, 64} /\ dev.endian \in {"little", "big"}
      /\ dev.float \in {"hard", "soft", ""} /\ dev.flags \in BOOLEAN
      /\ dev.libcs \in SUBSET {"musl", "uClibc", "glibc"}
      /\ dev.musl \in MuslVersions \cup {""}
      /\ dev.isa = "arm" => dev.bits = 32 /\ dev.float # ""
  BY <1>1 DEF DeviceType
<1>4. dev.machine \in Words /\ dev.toolchain \in Words
  BY <1>2 DEF Words
<1> QED BY <1>2, <1>3, <1>4

LEMMA DeviceWidth ==
  ASSUME dev \in Devices
  PROVE  dev.bits # 0 /\ (dev.isa = "arm" => dev.bits = 32)
<1>1. dev.bits \in {32, 64} /\ (dev.isa = "arm" => dev.bits = 32)
  BY DeviceFacts
<1> HIDE DetectAssumption
<1>2. \A b \in {32, 64} : b # 0
  OBVIOUS
<1> QED BY <1>1, <1>2

LEMMA OneWord ==
  ASSUME NEW S, NEW u \in S
  PROVE  <<u>> \in Seq(S) /\ Len(<<u>>) = 1 /\ <<u>>[1] = u
OBVIOUS

LEMMA TwoWords ==
  ASSUME NEW S, NEW u \in S, NEW v \in S
  PROVE  <<u, v>> \in Seq(S) /\ Len(<<u, v>>) = 2 /\ <<u, v>>[1] = u /\ <<u, v>>[2] = v
OBVIOUS

LEMMA ThreeWords ==
  ASSUME NEW S, NEW u \in S, NEW v \in S, NEW w \in S
  PROVE  /\ <<u, v, w>> \in Seq(S) /\ Len(<<u, v, w>>) = 3
         /\ <<u, v, w>>[1] = u /\ <<u, v, w>>[2] = v /\ <<u, v, w>>[3] = w
OBVIOUS

\* One word, said or not.
LEMMA SaysOne ==
  ASSUME NEW c, NEW b, NEW w, WordTold(c, w)
  PROVE  WordsTold(c, When(b, <<w>>))
<1>1. w \in Words
  BY DEF WordTold
<1>2. <<w>> \in Texts /\ Len(<<w>>) = 1 /\ <<w>>[1] = w
  BY <1>1, OneWord DEF Texts
<1>3. <<>> \in Texts /\ Len(<<>>) = 0
  BY EmptySeq DEF Texts
<1> QED BY <1>2, <1>3 DEF WordsTold, When

LEMMA SaysBoth ==
  ASSUME NEW c, NEW s, NEW t, WordsTold(c, s), WordsTold(c, t)
  PROVE  WordsTold(c, s \o t)
<1>1. s \in Texts /\ t \in Texts
  BY DEF WordsTold
<1>2. /\ s \o t \in Texts
      /\ Len(s \o t) = Len(s) + Len(t) /\ Len(s) \in Nat /\ Len(t) \in Nat
      /\ \A i \in 1..Len(s \o t) : (s \o t)[i] = IF i <= Len(s) THEN s[i] ELSE t[i - Len(s)]
  BY <1>1, ConcatProperties DEF Texts
<1>3. ASSUME NEW i \in 1..Len(s \o t) PROVE WordTold(c, (s \o t)[i])
  <2>1. CASE i <= Len(s)
    BY <2>1, <1>2 DEF WordsTold
  <2>2. CASE ~(i <= Len(s))
    <3>1. i - Len(s) \in 1..Len(t)
      BY <2>2, <1>2
    <3> QED BY <2>2, <3>1, <1>2 DEF WordsTold
  <2> QED BY <2>1, <2>2
<1> QED BY <1>2, <1>3 DEF WordsTold

LEMMA SaysTwo ==
  ASSUME NEW c, NEW b, NEW v, NEW w, WordTold(c, v), WordTold(c, w)
  PROVE  WordsTold(c, When(b, <<v, w>>))
<1>1. v \in Words /\ w \in Words
  BY DEF WordTold
<1>2. <<v, w>> \in Texts /\ Len(<<v, w>>) = 2 /\ <<v, w>>[1] = v /\ <<v, w>>[2] = w
  BY <1>1, TwoWords DEF Texts
<1>3. <<>> \in Texts /\ Len(<<>>) = 0
  BY EmptySeq DEF Texts
<1> QED BY <1>2, <1>3 DEF WordsTold, When

LEMMA SaysThree ==
  ASSUME NEW c, NEW b, NEW u, NEW v, NEW w, WordTold(c, u), WordTold(c, v), WordTold(c, w)
  PROVE  WordsTold(c, When(b, <<u, v, w>>))
<1>1. u \in Words /\ v \in Words /\ w \in Words
  BY DEF WordTold
<1>2. /\ <<u, v, w>> \in Texts /\ Len(<<u, v, w>>) = 3
      /\ <<u, v, w>>[1] = u /\ <<u, v, w>>[2] = v /\ <<u, v, w>>[3] = w
  BY <1>1, ThreeWords DEF Texts
<1>3. <<>> \in Texts /\ Len(<<>>) = 0
  BY EmptySeq DEF Texts
<1> QED BY <1>2, <1>3 DEF WordsTold, When

\* What the shell echoes of a command line.
LEMMA EchoSays ==
  ASSUME NEW c PROVE WordsTold(c, Echo(c))
<1>1. \A w : When(TRUE, w) = w
  BY DEF When
<1>2. CASE c = "libc"
  <2>1. WordTold(c, {"ld-uClibc"}) /\ WordTold(c, {"ld-musl", "musl"})
    BY <1>2 DEF WordTold, Words, Keys, VersionNames, MuslVersions
  <2>2. Echo(c) = <<{"ld-uClibc"}, {"ld-musl", "musl"}>>
    BY <1>2 DEF Echo
  <2>3. WordsTold(c, When(TRUE, <<{"ld-uClibc"}, {"ld-musl", "musl"}>>))
    BY <2>1, SaysTwo
  <2> QED BY <2>2, <2>3, <1>1
<1>4. CASE c = "musl"
  <2>1. WordTold(c, {"musl"})
    BY <1>4 DEF WordTold, Words, Keys, VersionNames, MuslVersions
  <2>2. Echo(c) = <<{"musl"}>>
    BY <1>4 DEF Echo
  <2> QED BY <2>1, <2>2, <1>1, SaysOne
<1>5. CASE c \notin {"libc", "musl"}
  <2>1. WordTold(c, {})
    BY DEF WordTold, Words
  <2>2. Echo(c) = <<{}>>
    BY <1>5 DEF Echo
  <2> QED BY <2>1, <2>2, <1>1, SaysOne
<1> QED BY <1>2, <1>4, <1>5

\* What a command prints.
LEMMA OutputSays ==
  ASSUME dev \in Devices, NEW c
  PROVE  WordsTold(c, Output(c))
<1>0. \A w : When(TRUE, w) = w
  BY DEF When
<1>1. CASE c = "uname"
  <2>1. WordTold(c, dev.machine)
    BY <1>1, DeviceFacts DEF WordTold
  <2>2. Output(c) = <<dev.machine>>
    BY <1>1 DEF Output
  <2>3. WordsTold(c, When(TRUE, <<dev.machine>>))
    BY <2>1, SaysOne
  <2> QED BY <2>2, <2>3, <1>0
<1>2. CASE c \in {"version", "dmesg"}
  <2> DEFINE w == IF c = "version" THEN dev.toolchain ELSE dev.toolchain \cap {"arm", "mips"}
  <2>1. w \in Words /\ "ld-musl" \notin w /\ (c = "dmesg" => "musl" \notin w)
    BY DeviceFacts DEF Words
  <2>2. WordTold(c, w)
    BY <1>2, <2>1 DEF WordTold
  <2>3. Output(c) = <<w>>
    BY <1>2 DEF Output
  <2>4. WordsTold(c, When(TRUE, <<w>>))
    BY <2>2, SaysOne
  <2> QED BY <2>3, <2>4, <1>0
<1>3. CASE c = "cpuinfo"
  <2> DEFINE arch == dev.toolchain \cap {"arm", "mips"}
             order == IF dev.endian = "little" THEN "byteorder-little" ELSE "byteorder-big"
             a == <<arch>>
             b == When("mips" \in dev.toolchain, <<{"cpu-model-MIPS"}>>)
             d == When(dev.byteorder, <<{order}>>)
  <2>1. WordTold(c, arch)
    BY <1>3, DeviceFacts DEF WordTold, Words
  <2>2. WordTold(c, {"cpu-model-MIPS"})
    BY <1>3 DEF WordTold, Words, Keys
  <2>3. WordTold(c, {order})
    BY <1>3 DEF WordTold, Words, Keys
  <2>4. WordsTold(c, When(TRUE, <<arch>>)) /\ WordsTold(c, b) /\ WordsTold(c, d)
    BY <2>1, <2>2, <2>3, SaysOne
  <2>5. WordsTold(c, a)
    BY <2>4, <1>0
  <2>6. WordsTold(c, (a \o b) \o d)
    BY <2>4, <2>5, SaysBoth
  <2>7. Output(c) = (a \o b) \o d
    BY <1>3 DEF Output
  <2> QED BY <2>6, <2>7
<1>4. CASE c = "libc"
  <2> DEFINE a == When("musl" \in dev.libcs, <<MuslLoader>>)
             b == When("uClibc" \in dev.libcs, <<{"ld-uClibc"}>>)
             d == When("glibc" \in dev.libcs, <<{"libc.so.6"}>>)
  <2>1. MuslLoader \subseteq {"ld-musl", "musl", "ld-musl-armhf", "ld-musl-arm."}
    BY DEF MuslLoader
  <2>10. dev.isa = "arm" => /\ "ld-musl-armhf" \in MuslLoader => dev.float = "hard"
                            /\ "ld-musl-arm." \in MuslLoader => dev.float # "hard"
    BY DEF MuslLoader
  <2>11. MuslLoader \in Words /\ \A v \in VersionNames : v \notin MuslLoader
    BY <2>1 DEF Words, Keys, VersionNames, MuslVersions
  <2>2. WordTold(c, MuslLoader)
    BY <1>4, <2>10, <2>11 DEF WordTold
  <2>3. WordTold(c, {"ld-uClibc"})
    BY <1>4 DEF WordTold, Words, Keys, VersionNames, MuslVersions
  <2>4. WordTold(c, {"libc.so.6"})
    BY <1>4 DEF WordTold, Words, Keys, VersionNames, MuslVersions
  <2>5. WordsTold(c, a) /\ WordsTold(c, b) /\ WordsTold(c, d)
    BY <2>2, <2>3, <2>4, SaysOne
  <2>6. WordsTold(c, (a \o b) \o d)
    BY <2>5, SaysBoth
  <2>7. Output(c) = (a \o b) \o d
    BY <1>4 DEF Output
  <2> QED BY <2>6, <2>7
<1>5. CASE c = "file"
  <2> DEFINE u == {IF dev.bits = 32 THEN "32-bit" ELSE "64-bit"}
             v == {IF dev.endian = "little" THEN "lsb" ELSE "msb"}
  <2>1. WordTold(c, u)
    BY <1>5 DEF WordTold, Words, Keys
  <2>2. WordTold(c, v)
    BY <1>5 DEF WordTold, Words, Keys
  <2>3. FileWords \subseteq {"aarch64", "arm", "80386", "x86-64", "mips"}
    BY DeviceFacts DEF FileWords, ISAs
  <2>4. WordTold(c, FileWords)
    BY <1>5, <2>3 DEF WordTold, Words, Keys
  <2>5. Output(c) = When("file" \in dev.tools, <<u, v, FileWords>>)
    BY <1>5 DEF Output
  <2> HIDE DEF u, v
  <2> QED BY <2>1, <2>2, <2>4, <2>5, SaysThree
<1>6. CASE c = "od"
  <2>1. WordTold(c, {"od"}) /\ WordTold(c, {"byte-40"})
    BY <1>6 DEF WordTold, Words, Keys
  <2>2. Output(c) = When("od" \in dev.tools, <<{"od"}, {"byte-40"}>>)
    BY <1>6 DEF Output, Dump
  <2>3. WordsTold(c, When("od" \in dev.tools, <<{"od"}, {"byte-40"}>>))
    BY <2>1, SaysTwo
  <2> QED BY <2>2, <2>3
<1>7. CASE c = "readelf"
  <2> DEFINE w == {"Tag_ABI_VFP_args"} \cup
                  IF dev.float = "hard" THEN {"VFP-registers"} ELSE {}
  <2>1. WordTold(c, w)
    BY <1>7 DEF WordTold, Words, Keys
  <2>2. Output(c) = When("readelf" \in dev.tools /\ dev.vfp, <<w>>)
    BY <1>7 DEF Output
  <2> HIDE DEF w
  <2> QED BY <2>1, <2>2, SaysOne
<1>8. CASE c = "glibc"
  <2>1. WordTold(c, {"2.28"})
    BY <1>8 DEF WordTold, Words, Keys
  <2>2. Output(c) = When("glibc" \in dev.libcs, <<{"2.28"}>>)
    BY <1>8 DEF Output
  <2> QED BY <2>1, <2>2, SaysOne
<1>9. CASE c = "musl"
  <2>1. Output(c) = When("musl" \in dev.libcs, <<{"musl"}, {dev.musl}>>)
    BY <1>9 DEF Output
  <2>2. CASE "musl" \in dev.libcs
    <3>1. WordTold(c, {"musl"})
      BY <1>9 DEF WordTold, Words, Keys, VersionNames, MuslVersions
    <3>2. WordTold(c, {dev.musl})
      <4>1. dev.musl \in MuslVersions \cup {""} /\ "ld-musl" \notin MuslVersions \cup {""}
        BY DeviceFacts DEF MuslVersions
      <4>2. {dev.musl} \in Words /\ "ld-musl" \notin {dev.musl}
        BY <4>1 DEF Words
      <4> QED BY <1>9, <2>2, <4>2 DEF WordTold
    <3> QED BY <2>1, <3>1, <3>2, SaysTwo
  <2>3. CASE "musl" \notin dev.libcs
    <3>1. Output(c) = <<>>
      BY <2>1, <2>3 DEF When
    <3>2. <<>> \in Texts /\ Len(<<>>) = 0
      BY EmptySeq DEF Texts
    <3> QED BY <3>1, <3>2 DEF WordsTold
  <2> QED BY <2>2, <2>3
<1>10. CASE c \notin {"uname", "cpuinfo", "version", "libc", "dmesg", "file", "od", "readelf",
                      "glibc", "musl"}
  <2>1. WordTold(c, {})
    BY DEF WordTold, Words
  <2>2. Output(c) = <<{}>>
    BY <1>10 DEF Output
  <2>3. WordsTold(c, When(TRUE, <<{}>>))
    BY <2>1, SaysOne
  <2> QED BY <2>2, <2>3, <1>0
<1> QED BY <1>1, <1>2, <1>3, <1>4, <1>5, <1>6, <1>7, <1>8, <1>9, <1>10

\* An echo and the output after it.
LEMMA ReplyTexts ==
  ASSUME dev \in Devices, NEW c
  PROVE  /\ Echo(c) \in Texts /\ Output(c) \in Texts /\ Echo(c) \o Output(c) \in Texts
         /\ c # "libc" => Told("loader", Echo(c) \o Output(c))
         /\ c \notin {"uname", "version"} => Told("version", Echo(c) \o Output(c))
         /\ Told("any", Echo(c) \o Output(c))
<1> DEFINE t == Echo(c) \o Output(c)
<1>1. WordsTold(c, Echo(c)) /\ WordsTold(c, Output(c)) /\ WordsTold(c, t)
  BY EchoSays, OutputSays, SaysBoth
<1>2. \A i \in 1..Len(t) : WordTold(c, t[i])
  BY <1>1 DEF WordsTold
<1>3. /\ c # "libc" => Told("loader", t)
      /\ c \notin {"uname", "version"} => Told("version", t)
      /\ Told("any", t)
  <2> HIDE DEF t
  <2>1. c # "libc" => Told("loader", t)
    BY <1>2 DEF Told, WordTold
  <2>2. c \notin {"uname", "version"} => Told("version", t)
    BY <1>2 DEF Told, WordTold
  <2>3. Told("any", t)
    BY DEF Told
  <2> QED BY <2>1, <2>2, <2>3
<1> QED BY <1>1, <1>3 DEF WordsTold

-----------------------------------------------------------------------------
(* Answers *)

\* The session: every text that is left in it is there because a command has
\* timed out.
SessionInv ==
  /\ up \in BOOLEAN /\ shifted \in BOOLEAN
  /\ timeouts \in 0..MaxTimeouts
  /\ stream \in Seq(Texts) /\ Len(stream) <= timeouts

StreamTold(k) == \A i \in 1..Len(stream) : Told(k, stream[i])

\* What is left in the session and what command c adds.
Tells(k, c) == StreamTold(k) /\ Told(k, Echo(c) \o Output(c))

\* What Execute returns.
IsAnswer(k, a, c) ==
  /\ a.text \in Texts /\ Told(k, a.text)
  /\ a.failed \in BOOLEAN /\ a.alive \in BOOLEAN /\ a.own \in BOOLEAN
  /\ a.rest \in Seq(Texts) /\ \A i \in 1..Len(a.rest) : Told(k, a.rest[i])
  /\ IF a.failed /\ a.alive THEN timeouts < MaxTimeouts /\ Len(a.rest) <= Len(stream) + 1
                            ELSE Len(a.rest) <= Len(stream)
  /\ a.own => \E n \in 0..Len(Output(c)) : a.text = SubSeq(Output(c), 1, n)

LEMMA FromFacts ==
  ASSUME NEW S, NEW t \in Seq(S), NEW n \in 0..Len(t)
  PROVE  /\ From(t, n) \in Seq(S) /\ Len(From(t, n)) = Len(t) - n
         /\ \A i \in 1..(Len(t) - n) : From(t, n)[i] = t[i + n]
<1>1. n + 1 \in 1..(Len(t) + 1) /\ Len(t) \in Nat
  OBVIOUS
<1>2. /\ SubSeq(t, n + 1, Len(t)) \in Seq(S)
      /\ Len(SubSeq(t, n + 1, Len(t))) = Len(t) - n
      /\ \A i \in 1..(Len(t) - n) : SubSeq(t, n + 1, Len(t))[i] = t[i + n]
  BY <1>1, SubSeqProperties
<1> QED BY <1>2 DEF From

\* A part of a text tells no more than the text.
LEMMA PartsTold ==
  ASSUME NEW k, NEW t \in Texts, Told(k, t), NEW p \in Texts, NEW m \in Nat,
         Len(p) + m <= Len(t), \A i \in 1..Len(p) : p[i] = t[i + m]
  PROVE  Told(k, p)
<1>1. Len(p) \in Nat /\ Len(t) \in Nat
  BY DEF Texts
<1>2. \A i \in 1..Len(p) : i + m \in 1..Len(t) /\ p[i] = t[i + m]
  BY <1>1
<1> QED BY <1>2 DEF Told

LEMMA EndTold ==
  ASSUME NEW k, NEW t \in Texts, Told(k, t), NEW n \in 0..Len(t)
  PROVE  From(t, n) \in Texts /\ Told(k, From(t, n))
<1>1. /\ From(t, n) \in Texts /\ Len(From(t, n)) = Len(t) - n
      /\ \A i \in 1..(Len(t) - n) : From(t, n)[i] = t[i + n]
  BY FromFacts DEF Texts
<1>2. Len(t) \in Nat /\ n \in Nat
  BY DEF Texts
<1>3. Len(From(t, n)) + n <= Len(t)
  BY <1>1, <1>2
<1> QED BY <1>1, <1>2, <1>3, PartsTold

LEMMA BeginningWords ==
  ASSUME NEW t \in Texts, NEW n \in 0..Len(t)
  PROVE  /\ SubSeq(t, 1, n) \in Texts /\ Len(SubSeq(t, 1, n)) = n /\ Len(t) \in Nat
         /\ \A i \in 1..n : SubSeq(t, 1, n)[i] = t[i]
<1>1. Len(t) \in Nat /\ n \in 0..Len(t) /\ 1 \in 1..(Len(t) + 1)
  BY DEF Texts
<1>2. /\ SubSeq(t, 1, n) \in Seq(Words) /\ Len(SubSeq(t, 1, n)) = n - 1 + 1
      /\ \A i \in 1..(n - 1 + 1) : SubSeq(t, 1, n)[i] = t[1 + i - 1]
  BY <1>1, SubSeqProperties DEF Texts
<1>3. n - 1 + 1 = n /\ \A i \in 1..n : 1 + i - 1 = i
  BY <1>1
<1> QED BY <1>1, <1>2, <1>3 DEF Texts

LEMMA BeginningTold ==
  ASSUME NEW k, NEW t \in Texts, Told(k, t), NEW n \in 0..Len(t)
  PROVE  SubSeq(t, 1, n) \in Texts /\ Told(k, SubSeq(t, 1, n)) /\ Len(SubSeq(t, 1, n)) = n
<1>1. /\ SubSeq(t, 1, n) \in Texts /\ Len(SubSeq(t, 1, n)) = n /\ Len(t) \in Nat
      /\ \A i \in 1..n : SubSeq(t, 1, n)[i] = t[i]
  BY BeginningWords
<1>2. n + 0 <= Len(t) /\ \A i \in 1..n : SubSeq(t, 1, n)[i] = t[i + 0]
  BY <1>1
<1> QED BY <1>1, <1>2, PartsTold

\* The texts left in the session and those of command c.
All(c) == Append(stream, Echo(c) \o Output(c))

LEMMA AllTold ==
  ASSUME dev \in Devices, SessionInv, NEW c, NEW k, Tells(k, c)
  PROVE  /\ All(c) \in Seq(Texts) /\ Len(stream) \in Nat /\ Len(All(c)) = Len(stream) + 1
         /\ \A i \in 1..Len(All(c)) : Told(k, All(c)[i])
         /\ All(c)[Len(All(c))] = Echo(c) \o Output(c)
<1> DEFINE t == Echo(c) \o Output(c)
<1>1. t \in Texts /\ Told(k, t)
  BY ReplyTexts DEF Tells
<1> HIDE DEF t
<1>2. stream \in Seq(Texts) /\ Len(stream) \in Nat
  BY DEF SessionInv
<1>3. /\ Append(stream, t) \in Seq(Texts) /\ Len(Append(stream, t)) = Len(stream) + 1
      /\ \A i \in 1..Len(stream) : Append(stream, t)[i] = stream[i]
      /\ Append(stream, t)[Len(stream) + 1] = t
  BY <1>1, <1>2, AppendProperties
<1>4. ASSUME NEW i \in 1..Len(Append(stream, t)) PROVE Told(k, Append(stream, t)[i])
  <2>1. CASE i = Len(stream) + 1
    BY <2>1, <1>1, <1>3
  <2>2. CASE i # Len(stream) + 1
    <3>1. i \in 1..Len(stream)
      BY <2>2, <1>2, <1>3
    <3> QED BY <3>1, <1>3 DEF Tells, StreamTold
  <2> QED BY <2>1, <2>2
<1>5. All(c) = Append(stream, t)
  BY DEF All, t
<1>6. All(c)[Len(All(c))] = t
  BY <1>3, <1>5
<1> QED BY <1>2, <1>3, <1>4, <1>5, <1>6 DEF t

\* Where an answer may begin.
LEMMA StartFacts ==
  ASSUME dev \in Devices, SessionInv, NEW c, NEW k, Tells(k, c), NEW s \in Starts(c) \cup {<<1, 0>>}
  PROVE  s[1] \in 1..Len(All(c)) /\ s[2] \in 0..Len(All(c)[s[1]])
<1>1. /\ All(c) \in Seq(Texts) /\ Len(stream) \in Nat /\ Len(All(c)) = Len(stream) + 1
      /\ All(c)[Len(All(c))] = Echo(c) \o Output(c)
  BY AllTold
<1>2. \A i \in 1..Len(All(c)) : All(c)[i] \in Texts /\ Len(All(c)[i]) \in Nat
  BY <1>1 DEF Texts
<1>3. /\ Len(Echo(c)) \in Nat /\ Len(Output(c)) \in Nat
      /\ Len(Echo(c) \o Output(c)) = Len(Echo(c)) + Len(Output(c))
  BY ReplyTexts, ConcatProperties DEF Texts
<1>4. Len(Echo(c)) \in 0..Len(All(c)[Len(All(c))])
  BY <1>1, <1>3
<1>5. CASE s = <<1, 0>>
  <2>1. s[1] = 1 /\ s[2] = 0 /\ 1 \in 1..Len(All(c))
    BY <1>5, <1>1
  <2> QED BY <2>1, <1>2
<1>6. CASE s \in Starts(c) /\ stream = <<>>
  <2>1. s = <<1, Len(Echo(c))>>
    BY <1>6 DEF Starts
  <2>2. Len(All(c)) = 1
    BY <1>1, <1>6
  <2> QED BY <2>1, <2>2, <1>4
<1>7. CASE s \in Starts(c) /\ stream # <<>>
  <2>1. /\ s \in (1..Len(All(c))) \X (0..4)
        /\ s[2] <= IF s[1] = Len(All(c)) THEN Len(Echo(c)) ELSE Len(All(c)[s[1]])
    BY <1>7 DEF Starts, All
  <2>2. s[1] \in 1..Len(All(c)) /\ s[2] \in Nat
    BY <2>1
  <2> QED BY <2>1, <2>2, <1>2, <1>4
<1> QED BY <1>5, <1>6, <1>7

\* The parts of the session before and behind the place where an answer begins.
LEMMA PlaceFacts ==
  ASSUME dev \in Devices, SessionInv, NEW c, NEW k, Tells(k, c), NEW s \in Starts(c) \cup {<<1, 0>>}
  PROVE  LET text == From(All(c)[s[1]], s[2])
             rest == From(All(c), s[1])
         IN /\ text \in Texts /\ Told(k, text)
            /\ rest \in Seq(Texts) /\ Len(rest) <= Len(stream)
            /\ \A i \in 1..Len(rest) : Told(k, rest[i])
<1> DEFINE text == From(All(c)[s[1]], s[2])
           rest == From(All(c), s[1])
<1>1. s[1] \in 1..Len(All(c)) /\ s[2] \in 0..Len(All(c)[s[1]])
  BY StartFacts
<1>2. /\ All(c) \in Seq(Texts) /\ Len(stream) \in Nat /\ Len(All(c)) = Len(stream) + 1
      /\ \A i \in 1..Len(All(c)) : Told(k, All(c)[i])
  BY AllTold
<1>3. text \in Texts /\ Told(k, text)
  <2>1. All(c)[s[1]] \in Texts
    BY <1>1, <1>2
  <2> QED BY <1>1, <1>2, <2>1, EndTold
<1>4. s[1] \in 0..Len(All(c))
  BY <1>1, <1>2
<1>5. /\ rest \in Seq(Texts) /\ Len(rest) = Len(All(c)) - s[1]
      /\ \A i \in 1..(Len(All(c)) - s[1]) : rest[i] = All(c)[i + s[1]]
  BY <1>2, <1>4, FromFacts
<1>6. \A i \in 1..(Len(All(c)) - s[1]) : i + s[1] \in 1..Len(All(c))
  BY <1>1, <1>2
<1>7. Len(rest) <= Len(stream)
  <2> HIDE DEF rest
  <2> QED BY <1>1, <1>2, <1>5
<1>8. \A i \in 1..Len(rest) : Told(k, rest[i])
  <2> HIDE DEF rest
  <2> QED BY <1>2, <1>5, <1>6
<1> QED BY <1>3, <1>5, <1>7, <1>8

LEMMA FrontFacts ==
  ASSUME NEW k, NEW s \in Seq(Texts), NEW t \in Texts, Told(k, t),
         \A i \in 1..Len(s) : Told(k, s[i])
  PROVE  /\ <<t>> \o s \in Seq(Texts) /\ Len(<<t>> \o s) = Len(s) + 1
         /\ \A i \in 1..Len(<<t>> \o s) : Told(k, (<<t>> \o s)[i])
<1>1. <<t>> \in Seq(Texts) /\ Len(<<t>>) = 1 /\ <<t>>[1] = t
  BY OneWord
<1> DEFINE o == <<t>>
<1>2. o \in Seq(Texts) /\ Len(o) = 1 /\ o[1] = t
  BY <1>1
<1> HIDE DEF o
<1>0. o \in Seq(Texts)
  BY <1>2
<1>3. /\ o \o s \in Seq(Texts) /\ Len(o \o s) = 1 + Len(s) /\ Len(s) \in Nat
      /\ \A i \in 1..(1 + Len(s)) : (o \o s)[i] = IF i <= 1 THEN o[i] ELSE s[i - 1]
  <2>1. /\ o \o s \in Seq(Texts) /\ Len(o \o s) = Len(o) + Len(s) /\ Len(s) \in Nat
        /\ \A i \in 1..(Len(o) + Len(s)) :
             (o \o s)[i] = IF i <= Len(o) THEN o[i] ELSE s[i - Len(o)]
    BY <1>0, ConcatProperties
  <2> QED BY <1>2, <2>1
<1>4. ASSUME NEW i \in 1..(1 + Len(s)) PROVE Told(k, (o \o s)[i])
  <2>1. CASE i = 1
    BY <2>1, <1>2, <1>3
  <2>2. CASE i # 1
    <3>1. i - 1 \in 1..Len(s) /\ ~(i <= 1)
      BY <2>2, <1>3
    <3> QED BY <3>1, <1>3
  <2> QED BY <2>1, <2>2
<1> QED BY <1>3, <1>4 DEF o

\* An answer that is read to the prompt.
LEMMA WholeIsAnswer ==
  ASSUME dev \in Devices, SessionInv, NEW c, NEW k, Tells(k, c), NEW s \in Starts(c)
  PROVE  /\ IsAnswer(k, Whole(c, s), c)
         /\ Whole(c, s).own => Whole(c, s).text = Output(c)
<1> DEFINE text == From(All(c)[s[1]], s[2])
           rest == From(All(c), s[1])
           own == s[1] = Len(All(c)) /\ s[2] = Len(Echo(c))
           out == SubSeq(Output(c), 1, Len(Output(c)))
<1>1. Whole(c, s) = [text |-> text, failed |-> FALSE, alive |-> TRUE, own |-> own, rest |-> rest]
  BY DEF Whole, All
<1>2. /\ text \in Texts /\ Told(k, text)
      /\ rest \in Seq(Texts) /\ Len(rest) <= Len(stream)
      /\ \A i \in 1..Len(rest) : Told(k, rest[i])
  BY PlaceFacts
<1>3. Output(c) \in Texts /\ Echo(c) \in Texts /\ Len(Output(c)) \in Nat /\ Len(Echo(c)) \in Nat
  BY ReplyTexts DEF Texts
<1>4. own => text = Output(c)
  <2> DEFINE t == Echo(c) \o Output(c)
  <2>1. SUFFICES ASSUME own PROVE From(t, Len(Echo(c))) = Output(c)
    BY AllTold
  <2>2. /\ t \in Seq(Words) /\ Len(t) = Len(Echo(c)) + Len(Output(c))
        /\ \A i \in 1..Len(t) : t[i] = IF i <= Len(Echo(c)) THEN Echo(c)[i]
                                       ELSE Output(c)[i - Len(Echo(c))]
    BY <1>3, ConcatProperties DEF Texts
  <2> HIDE DEF t
  <2> DEFINE e == Len(Echo(c))
             l == Len(Output(c))
  <2>3. e \in Nat /\ l \in Nat /\ Len(t) = e + l
    BY <1>3, <2>2
  <2>4. \A i \in 1..l : t[i + e] = Output(c)[i]
    <3> TAKE i \in 1..l
    <3> HIDE DEF e, l
    <3>1. i + e \in 1..(e + l) /\ ~(i + e <= e) /\ i + e - e = i
      BY <2>3
    <3> QED BY <3>1, <2>2, <2>3 DEF e, l
  <2>5. /\ From(t, e) \in Seq(Words) /\ Len(From(t, e)) = Len(t) - e
        /\ \A i \in 1..(Len(t) - e) : From(t, e)[i] = t[i + e]
    <3>1. e \in 0..Len(t)
      <4> HIDE DEF e, l
      <4> QED BY <2>3
    <3> HIDE DEF e
    <3> QED BY <2>2, <3>1, FromFacts
  <2>6. Len(t) - e = l
    <3> HIDE DEF e, l
    <3> QED BY <2>3
  <2>7. Len(From(t, e)) = l /\ \A i \in 1..l : From(t, e)[i] = Output(c)[i]
    BY <2>4, <2>5, <2>6
  <2> QED BY <2>5, <2>7, <1>3, SeqEqual DEF Texts
<1>5. own => \E n \in 0..Len(Output(c)) : text = SubSeq(Output(c), 1, n)
  <2>1. out = Output(c)
    <3>1. Len(Output(c)) \in 0..Len(Output(c)) /\ 1 \in 1..(Len(Output(c)) + 1)
      BY <1>3
    <3>2. /\ out \in Seq(Words) /\ Len(out) = Len(Output(c)) - 1 + 1
          /\ \A i \in 1..(Len(Output(c)) - 1 + 1) : out[i] = Output(c)[1 + i - 1]
      BY <1>3, <3>1, SubSeqProperties DEF Texts
    <3>3. Len(out) = Len(Output(c)) /\ \A i \in 1..Len(Output(c)) : out[i] = Output(c)[i]
      <4> DEFINE l == Len(Output(c))
      <4>1. l - 1 + 1 = l /\ \A i \in 1..l : 1 + i - 1 = i
        <5>1. l \in Nat
          BY <1>3
        <5> HIDE DEF l
        <5> QED BY <5>1
      <4> QED BY <3>2, <4>1
    <3> QED BY <1>3, <3>2, <3>3, SeqEqual DEF Texts
  <2>2. Len(Output(c)) \in 0..Len(Output(c))
    BY <1>3
  <2> QED BY <1>4, <2>1, <2>2
<1> HIDE DEF text, rest, own
<1>6. own \in BOOLEAN
  BY DEF own
<1>7. /\ Whole(c, s).text = text /\ Whole(c, s).failed = FALSE /\ Whole(c, s).alive = TRUE
      /\ Whole(c, s).own = own /\ Whole(c, s).rest = rest
  BY <1>1
<1> QED BY <1>2, <1>4, <1>5, <1>6, <1>7 DEF IsAnswer

\* An answer that ends at the deadline, or with the connection, before the prompt.
LEMMA InterruptedIsAnswer ==
  ASSUME dev \in Devices, SessionInv, NEW c, NEW k, Tells(k, c), NEW s \in Starts(c),
         NEW n \in 0..Len(Whole(c, s).text), NEW alive \in BOOLEAN, alive => timeouts < MaxTimeouts
  PROVE  IsAnswer(k, Interrupted(c, s, n, alive), c)
<1> DEFINE w == Whole(c, s)
           text == SubSeq(w.text, 1, n)
           left == From(w.text, n)
           rest == IF alive THEN <<left>> \o w.rest ELSE <<>>
<1>1. IsAnswer(k, w, c) /\ (w.own => w.text = Output(c))
  BY WholeIsAnswer
<1>2. w = [text |-> w.text, failed |-> FALSE, alive |-> TRUE, own |-> w.own, rest |-> w.rest]
  BY DEF Whole
<1>3. Interrupted(c, s, n, alive) =
        [text |-> text, failed |-> TRUE, alive |-> alive, own |-> w.own, rest |-> rest]
  BY DEF Interrupted
<1> HIDE DEF w
<1>4. /\ w.text \in Texts /\ Told(k, w.text) /\ w.own \in BOOLEAN
      /\ w.rest \in Seq(Texts) /\ \A i \in 1..Len(w.rest) : Told(k, w.rest[i])
      /\ Len(w.rest) <= Len(stream)
  BY <1>1, <1>2 DEF IsAnswer
<1>5. n \in 0..Len(w.text)
  BY DEF w
<1>6. text \in Texts /\ Told(k, text)
  BY <1>4, <1>5, BeginningTold
<1>7. left \in Texts /\ Told(k, left)
  BY <1>4, <1>5, EndTold
<1>8. w.own => \E m \in 0..Len(Output(c)) : text = SubSeq(Output(c), 1, m)
  BY <1>1, <1>5
<1>9. /\ <<left>> \o w.rest \in Seq(Texts) /\ Len(<<left>> \o w.rest) = Len(w.rest) + 1
      /\ \A i \in 1..Len(<<left>> \o w.rest) : Told(k, (<<left>> \o w.rest)[i])
  <2> HIDE DEF left
  <2> QED BY <1>4, <1>7, FrontFacts
<1>10. <<>> \in Seq(Texts) /\ Len(<<>>) = 0
  BY EmptySeq
<1>11. Len(stream) \in Nat /\ Len(w.rest) \in Nat
  BY <1>4 DEF SessionInv
<1>12. alive \in BOOLEAN
  OBVIOUS
<1>13. /\ rest \in Seq(Texts) /\ \A i \in 1..Len(rest) : Told(k, rest[i])
       /\ IF alive THEN timeouts < MaxTimeouts /\ Len(rest) <= Len(stream) + 1
                   ELSE Len(rest) <= Len(stream)
  <2>1. CASE alive
    <3>1. rest = <<left>> \o w.rest /\ timeouts < MaxTimeouts
      BY <2>1
    <3> HIDE DEF rest, left
    <3> QED BY <2>1, <3>1, <1>4, <1>9, <1>11
  <2>2. CASE ~alive
    <3>1. rest = <<>>
      BY <2>2
    <3> HIDE DEF rest, left
    <3> QED BY <2>2, <3>1, <1>10, <1>11
  <2> QED BY <2>1, <2>2
<1> HIDE DEF text, left, rest
<1> DEFINE a == Interrupted(c, s, n, alive)
<1>14. a.text = text /\ a.failed = TRUE /\ a.alive = alive /\ a.own = w.own /\ a.rest = rest
  BY <1>3
<1> HIDE DEF a
<1>15. IsAnswer(k, a, c)
  BY <1>4, <1>6, <1>8, <1>12, <1>13, <1>14 DEF IsAnswer
<1> QED BY <1>15 DEF a

\* Nothing has been read of the answer.
LEMMA NothingTold ==
  ASSUME dev \in Devices, NEW c, NEW k
  PROVE  /\ <<>> \in Texts /\ Told(k, <<>>)
         /\ \E m \in 0..Len(Output(c)) : <<>> = SubSeq(Output(c), 1, m)
<1>1. <<>> \in Texts /\ Len(<<>>) = 0
  BY EmptySeq DEF Texts
<1>2. Told(k, <<>>)
  BY <1>1 DEF Told
<1>3. Output(c) \in Texts /\ Len(Output(c)) \in Nat
  BY ReplyTexts DEF Texts
<1>4. 0 \in 0..Len(Output(c)) /\ SubSeq(Output(c), 1, 0) = <<>>
  <2> DEFINE t == SubSeq(Output(c), 1, 0)
  <2>1. 0 \in 0..Len(Output(c)) /\ 1 \in 1..(Len(Output(c)) + 1)
    BY <1>3
  <2>2. t \in Seq(Words) /\ Len(t) = 0 - 1 + 1
    BY <1>3, <2>1, SubSeqProperties DEF Texts
  <2>3. Len(t) = 0
    BY <2>2
  <2> QED BY <2>1, <2>2, <2>3, EmptySeq
<1> QED BY <1>1, <1>2, <1>4

LEMMA UnansweredIsAnswer ==
  ASSUME dev \in Devices, SessionInv, NEW c, NEW k, Tells(k, c), NEW s \in Starts(c) \cup {<<1, 0>>},
         timeouts < MaxTimeouts
  PROVE  IsAnswer(k, Unanswered(c, s), c)
<1> DEFINE left == From(All(c)[s[1]], s[2])
           rest == From(All(c), s[1])
           a == Unanswered(c, s)
<1>1. a = [text |-> <<>>, failed |-> TRUE, alive |-> TRUE, own |-> TRUE, rest |-> <<left>> \o rest]
  BY DEF Unanswered, All
<1>2. /\ left \in Texts /\ Told(k, left)
      /\ rest \in Seq(Texts) /\ Len(rest) <= Len(stream)
      /\ \A i \in 1..Len(rest) : Told(k, rest[i])
  BY PlaceFacts
<1> HIDE DEF left, rest, a
<1>3. /\ <<left>> \o rest \in Seq(Texts) /\ Len(<<left>> \o rest) = Len(rest) + 1
      /\ \A i \in 1..Len(<<left>> \o rest) : Told(k, (<<left>> \o rest)[i])
  BY <1>2, FrontFacts
<1> DEFINE more == <<left>> \o rest
<1>4. /\ a.text = <<>> /\ a.failed = TRUE /\ a.alive = TRUE /\ a.own = TRUE /\ a.rest = more
  BY <1>1
<1>5. /\ more \in Seq(Texts) /\ \A i \in 1..Len(more) : Told(k, more[i])
      /\ Len(more) = Len(rest) + 1
  BY <1>3
<1> HIDE DEF more
<1>6. Len(stream) \in Nat /\ Len(rest) \in Nat
  BY <1>2 DEF SessionInv
<1>7. Len(more) <= Len(stream) + 1
  BY <1>2, <1>5, <1>6
<1>8. IsAnswer(k, a, c)
  BY <1>4, <1>5, <1>7, NothingTold DEF IsAnswer
<1> QED BY <1>8 DEF a

LEMMA BrokenIsAnswer ==
  ASSUME dev \in Devices, SessionInv, NEW c, NEW k, Tells(k, c)
  PROVE  IsAnswer(k, Broken, c)
<1> DEFINE a == Broken
<1>1. a.text = <<>> /\ a.failed = TRUE /\ a.alive = FALSE /\ a.own = TRUE /\ a.rest = <<>>
  BY DEF Broken
<1> HIDE DEF a
<1>2. <<>> \in Seq(Texts) /\ Len(<<>>) = 0 /\ Len(stream) \in Nat
  BY EmptySeq DEF SessionInv
<1>3. a.rest \in Seq(Texts) /\ Len(a.rest) = 0
  BY <1>1, <1>2
<1>4. \A i \in 1..Len(a.rest) : Told(k, a.rest[i])
  BY <1>3
<1>5. a.text \in Texts /\ Told(k, a.text) /\ \E n \in 0..Len(Output(c)) : a.text = SubSeq(Output(c), 1, n)
  BY <1>1, NothingTold
<1>6. a.failed \in BOOLEAN /\ a.alive \in BOOLEAN /\ a.own \in BOOLEAN
  BY <1>1
<1>7. IF a.failed /\ a.alive THEN timeouts < MaxTimeouts /\ Len(a.rest) <= Len(stream) + 1
                            ELSE Len(a.rest) <= Len(stream)
  BY <1>1, <1>2, <1>3
<1>8. IsAnswer(k, a, c)
  BY <1>3, <1>4, <1>5, <1>6, <1>7 DEF IsAnswer
<1> QED BY <1>8 DEF a

\* Whatever becomes of a command, what is returned and what is left in the
\* session are parts of texts that the shell has printed.
LEMMA AnswersAre ==
  ASSUME dev \in Devices, SessionInv, NEW c, NEW k, Tells(k, c), NEW a \in Answers(c)
  PROVE  IsAnswer(k, a, c)
<1> DEFINE begun == IF TRUE \in Outlives THEN Starts(c) \cup {<<1, 0>>} ELSE {}
           A == {Whole(c, s) : s \in Starts(c)}
           B == UNION {Interruptions(c, s) : s \in Starts(c)}
           C == {Unanswered(c, s) : s \in begun}
<1>1. Answers(c) = IF ~up THEN {Broken} ELSE {Broken} \cup A \cup B \cup C
  BY DEF Answers
<1>2. a = Broken \/ a \in A \/ a \in B \/ a \in C
  <2> HIDE DEF A, B, C
  <2> QED BY <1>1
<1>3. \A alive \in Outlives : alive \in BOOLEAN /\ (alive => timeouts < MaxTimeouts)
  BY DEF Outlives
<1>4. a \in A => IsAnswer(k, a, c)
  BY WholeIsAnswer
<1>5. a \in B => IsAnswer(k, a, c)
  <2>1. a \in B => \E s \in Starts(c) : a \in Interruptions(c, s)
    OBVIOUS
  <2>2. ASSUME NEW s \in Starts(c), a \in Interruptions(c, s) PROVE IsAnswer(k, a, c)
    <3>1. PICK n \in 0..Len(Whole(c, s).text), alive \in Outlives : a = Interrupted(c, s, n, alive)
      BY <2>2 DEF Interruptions
    <3> QED BY <1>3, <3>1, InterruptedIsAnswer
  <2> QED BY <2>1, <2>2
<1>6. a \in C => IsAnswer(k, a, c)
  <2>1. a \in C => \E s \in begun : a = Unanswered(c, s)
    <3> HIDE DEF begun
    <3> QED OBVIOUS
  <2>2. ASSUME NEW s \in begun PROVE s \in Starts(c) \cup {<<1, 0>>} /\ TRUE \in Outlives
    OBVIOUS
  <2> HIDE DEF C, begun
  <2>3. TRUE \in Outlives => timeouts < MaxTimeouts
    BY <1>3
  <2> QED BY <2>1, <2>2, <2>3, UnansweredIsAnswer
<1> QED BY <1>2, <1>4, <1>5, <1>6, BrokenIsAnswer

\* The session after an answer.
LEMMA ReceiveKeeps ==
  ASSUME SessionInv, NEW c, NEW k, NEW a, IsAnswer(k, a, c), Receive(a)
  PROVE  SessionInv'
<1>1. /\ stream' = a.rest /\ up' = a.alive /\ shifted' = (shifted \/ ~a.own)
      /\ timeouts' = IF a.failed /\ a.alive THEN timeouts + 1 ELSE timeouts
  BY DEF Receive
<1>2. timeouts' \in 0..MaxTimeouts /\ Len(stream') <= timeouts'
  <2>1. Len(a.rest) \in Nat /\ Len(stream) \in Nat
    BY DEF IsAnswer, SessionInv
  <2> QED BY <1>1, <2>1 DEF IsAnswer, SessionInv
<1>3. stream' \in Seq(Texts) /\ up' \in BOOLEAN /\ shifted' \in BOOLEAN
  BY <1>1 DEF IsAnswer, SessionInv
<1> QED BY <1>2, <1>3 DEF SessionInv

LEMMA ReceiveTells ==
  ASSUME dev' = dev, NEW c, NEW k, NEW a, IsAnswer(k, a, c), Receive(a)
  PROVE  StreamTold(k)'
<1>1. stream' = a.rest
  BY DEF Receive
<1>2. \A i \in 1..Len(stream') : Told(k, stream'[i])
  BY <1>1 DEF IsAnswer
<1> QED BY <1>2, dev' = dev DEF StreamTold, Told

\* What is read where it belongs is a beginning of the output.
LEMMA OwnFacts ==
  ASSUME dev \in Devices, NEW c, NEW a, IsAnswer("any", a, c), a.own
  PROVE  /\ \A i \in 1..Len(a.text) : WordTold(c, a.text[i])
         /\ Len(a.text) \in 0..Len(Output(c))
         /\ \A i \in 1..Len(a.text) : a.text[i] = Output(c)[i]
<1> DEFINE t == Output(c)
<1>1. WordsTold(c, t)
  BY OutputSays
<1>2. PICK n \in 0..Len(t) : a.text = SubSeq(t, 1, n)
  BY DEF IsAnswer
<1> HIDE DEF t
<1>3. t \in Seq(Words) /\ Len(t) \in Nat
  BY <1>1 DEF WordsTold, Texts
<1>4. 1 \in 1..(Len(t) + 1) /\ n - 1 + 1 = n /\ \A i \in 1..n : 1 + i - 1 = i
  BY <1>3
<1>5. /\ Len(SubSeq(t, 1, n)) = n - 1 + 1
      /\ \A i \in 1..(n - 1 + 1) : SubSeq(t, 1, n)[i] = t[1 + i - 1]
  BY <1>3, <1>4, SubSeqProperties
<1>6. Len(a.text) = n /\ \A i \in 1..n : a.text[i] = t[i]
  BY <1>2, <1>4, <1>5
<1>7. \A i \in 1..n : WordTold(c, t[i])
  BY <1>1, <1>3 DEF WordsTold
<1> QED BY <1>6, <1>7 DEF t

\* The first of the keys that is there decides.
LEMMA FirstOfIs ==
  ASSUME NEW text, NEW keys, NEW values, NEW none, Len(keys) \in Nat,
         NEW i \in 1..Len(keys), Has(text, keys[i]), \A j \in 1..(i - 1) : ~Has(text, keys[j])
  PROVE  FirstOf(text, keys, values, none) = values[i]
<1> DEFINE P(k) == k \in 1..Len(keys) /\ Has(text, keys[k]) /\ \A j \in 1..k - 1 : ~Has(text, keys[j])
           m == CHOOSE k \in 1..Len(keys) :
                  Has(text, keys[k]) /\ \A j \in 1..k - 1 : ~Has(text, keys[j])
<1>1. P(i)
  OBVIOUS
<1>2. P(m)
  BY <1>1
<1>3. m = i
  <2> HIDE DEF m
  <2>1. m \in 1..Len(keys)
    BY <1>2
  <2>2. ~(m < i) /\ ~(i < m)
    BY <1>1, <1>2, <2>1
  <2> QED BY <2>1, <2>2
<1>4. FirstOf(text, keys, values, none) = values[m]
  BY <1>1 DEF FirstOf
<1> QED BY <1>3, <1>4

LEMMA FirstOfNone ==
  ASSUME NEW text, NEW keys, NEW values, NEW none, \A i \in 1..Len(keys) : ~Has(text, keys[i])
  PROVE  FirstOf(text, keys, values, none) = none
BY DEF FirstOf

LEMMA FirstOfTwo ==
  ASSUME NEW text, NEW k1, NEW k2, NEW v1, NEW v2, NEW none
  PROVE  FirstOf(text, <<k1, k2>>, <<v1, v2>>, none) =
           IF Has(text, k1) THEN v1 ELSE IF Has(text, k2) THEN v2 ELSE none
<1> DEFINE keys == <<k1, k2>>
           values == <<v1, v2>>
<1>1. Len(keys) = 2 /\ keys[1] = k1 /\ keys[2] = k2 /\ values[1] = v1 /\ values[2] = v2
  OBVIOUS
<1> HIDE DEF keys, values
<1>2. CASE Has(text, k1)
  <2>1. \A j \in 1..(1 - 1) : ~Has(text, keys[j])
    OBVIOUS
  <2>0. 1 \in 1..Len(keys) /\ Len(keys) \in Nat
    BY <1>1
  <2>2. FirstOf(text, keys, values, none) = values[1]
    BY <2>0, <1>1, <1>2, <2>1, FirstOfIs
  <2> QED BY <1>1, <1>2, <2>2 DEF keys, values
<1>3. CASE ~Has(text, k1) /\ Has(text, k2)
  <2>1. \A j \in 1..(2 - 1) : ~Has(text, keys[j])
    BY <1>1, <1>3
  <2>0. 2 \in 1..Len(keys) /\ Len(keys) \in Nat
    BY <1>1
  <2>2. FirstOf(text, keys, values, none) = values[2]
    BY <2>0, <1>1, <1>3, <2>1, FirstOfIs
  <2> QED BY <1>1, <1>3, <2>2 DEF keys, values
<1>4. CASE ~Has(text, k1) /\ ~Has(text, k2)
  <2>1. \A j \in 1..Len(keys) : ~Has(text, keys[j])
    BY <1>1, <1>4
  <2>2. FirstOf(text, keys, values, none) = none
    BY <2>1, FirstOfNone
  <2> QED BY <1>4, <2>2 DEF keys, values
<1> QED BY <1>2, <1>3, <1>4

LEMMA FirstOfThree ==
  ASSUME NEW text, NEW k1, NEW k2, NEW k3, NEW v1, NEW v2, NEW v3, NEW none
  PROVE  FirstOf(text, <<k1, k2, k3>>, <<v1, v2, v3>>, none) =
           IF Has(text, k1) THEN v1 ELSE IF Has(text, k2) THEN v2
           ELSE IF Has(text, k3) THEN v3 ELSE none
<1> DEFINE keys == <<k1, k2, k3>>
           values == <<v1, v2, v3>>
<1>1. /\ Len(keys) = 3 /\ keys[1] = k1 /\ keys[2] = k2 /\ keys[3] = k3
      /\ values[1] = v1 /\ values[2] = v2 /\ values[3] = v3
  OBVIOUS
<1> HIDE DEF keys, values
<1>2. CASE Has(text, k1)
  <2>1. \A j \in 1..(1 - 1) : ~Has(text, keys[j])
    OBVIOUS
  <2>0. 1 \in 1..Len(keys) /\ Len(keys) \in Nat
    BY <1>1
  <2>2. FirstOf(text, keys, values, none) = values[1]
    BY <2>0, <1>1, <1>2, <2>1, FirstOfIs
  <2> QED BY <1>1, <1>2, <2>2 DEF keys, values
<1>3. CASE ~Has(text, k1) /\ Has(text, k2)
  <2>1. \A j \in 1..(2 - 1) : ~Has(text, keys[j])
    BY <1>1, <1>3
  <2>0. 2 \in 1..Len(keys) /\ Len(keys) \in Nat
    BY <1>1
  <2>2. FirstOf(text, keys, values, none) = values[2]
    BY <2>0, <1>1, <1>3, <2>1, FirstOfIs
  <2> QED BY <1>1, <1>3, <2>2 DEF keys, values
<1>4. CASE ~Has(text, k1) /\ ~Has(text, k2) /\ Has(text, k3)
  <2>1. \A j \in 1..(3 - 1) : j = 1 \/ j = 2
    OBVIOUS
  <2>2. \A j \in 1..(3 - 1) : ~Has(text, keys[j])
    BY <1>1, <1>4, <2>1
  <2>0. 3 \in 1..Len(keys) /\ Len(keys) \in Nat
    BY <1>1
  <2>4. Has(text, keys[3])
    BY <1>1, <1>4
  <2>3. FirstOf(text, keys, values, none) = values[3]
    BY <2>0, <2>2, <2>4, FirstOfIs
  <2> QED BY <1>1, <1>4, <2>3 DEF keys, values
<1>5. CASE ~Has(text, k1) /\ ~Has(text, k2) /\ ~Has(text, k3)
  <2>1. \A j \in 1..Len(keys) : j = 1 \/ j = 2 \/ j = 3
    BY <1>1
  <2>2. \A j \in 1..Len(keys) : ~Has(text, keys[j])
    BY <1>1, <1>5, <2>1
  <2>3. FirstOf(text, keys, values, none) = none
    BY <2>2, FirstOfNone
  <2> QED BY <1>5, <2>3 DEF keys, values
<1> QED BY <1>2, <1>3, <1>4, <1>5

LEMMA FirstOfFive ==
  ASSUME NEW text, NEW k1, NEW k2, NEW k3, NEW k4, NEW k5,
         NEW v1, NEW v2, NEW v3, NEW v4, NEW v5, NEW none
  PROVE  FirstOf(text, <<k1, k2, k3, k4, k5>>, <<v1, v2, v3, v4, v5>>, none) =
           IF Has(text, k1) THEN v1 ELSE IF Has(text, k2) THEN v2
           ELSE IF Has(text, k3) THEN v3 ELSE IF Has(text, k4) THEN v4
           ELSE IF Has(text, k5) THEN v5 ELSE none
<1> DEFINE keys == <<k1, k2, k3, k4, k5>>
           values == <<v1, v2, v3, v4, v5>>
<1>1. /\ Len(keys) = 5
      /\ keys[1] = k1 /\ keys[2] = k2 /\ keys[3] = k3 /\ keys[4] = k4 /\ keys[5] = k5
      /\ values[1] = v1 /\ values[2] = v2 /\ values[3] = v3 /\ values[4] = v4 /\ values[5] = v5
  OBVIOUS
<1> HIDE DEF keys, values
<1>2. CASE Has(text, k1)
  <2>1. \A j \in 1..(1 - 1) : ~Has(text, keys[j])
    OBVIOUS
  <2>2. 1 \in 1..Len(keys) /\ Len(keys) \in Nat /\ Has(text, keys[1])
    BY <1>1, <1>2
  <2>3. FirstOf(text, keys, values, none) = values[1]
    BY <2>1, <2>2, FirstOfIs
  <2> QED BY <1>1, <1>2, <2>3 DEF keys, values
<1>3. CASE ~Has(text, k1) /\ Has(text, k2)
  <2>5. \A j \in 1..(2 - 1) : j = 1
    OBVIOUS
  <2>1. \A j \in 1..(2 - 1) : ~Has(text, keys[j])
    BY <1>1, <1>3, <2>5
  <2>2. 2 \in 1..Len(keys) /\ Len(keys) \in Nat /\ Has(text, keys[2])
    BY <1>1, <1>3
  <2>3. FirstOf(text, keys, values, none) = values[2]
    BY <2>1, <2>2, FirstOfIs
  <2> QED BY <1>1, <1>3, <2>3 DEF keys, values
<1>4. CASE ~Has(text, k1) /\ ~Has(text, k2) /\ Has(text, k3)
  <2>5. \A j \in 1..(3 - 1) : j = 1 \/ j = 2
    OBVIOUS
  <2>1. \A j \in 1..(3 - 1) : ~Has(text, keys[j])
    BY <1>1, <1>4, <2>5
  <2>2. 3 \in 1..Len(keys) /\ Len(keys) \in Nat /\ Has(text, keys[3])
    BY <1>1, <1>4
  <2>3. FirstOf(text, keys, values, none) = values[3]
    BY <2>1, <2>2, FirstOfIs
  <2> QED BY <1>1, <1>4, <2>3 DEF keys, values
<1>5. CASE ~Has(text, k1) /\ ~Has(text, k2) /\ ~Has(text, k3) /\ Has(text, k4)
  <2>5. \A j \in 1..(4 - 1) : j = 1 \/ j = 2 \/ j = 3
    OBVIOUS
  <2>1. \A j \in 1..(4 - 1) : ~Has(text, keys[j])
    BY <1>1, <1>5, <2>5
  <2>2. 4 \in 1..Len(keys) /\ Len(keys) \in Nat /\ Has(text, keys[4])
    BY <1>1, <1>5
  <2>3. FirstOf(text, keys, values, none) = values[4]
    BY <2>1, <2>2, FirstOfIs
  <2> QED BY <1>1, <1>5, <2>3 DEF keys, values
<1>6. CASE ~Has(text, k1) /\ ~Has(text, k2) /\ ~Has(text, k3) /\ ~Has(text, k4) /\ Has(text, k5)
  <2>5. \A j \in 1..(5 - 1) : j = 1 \/ j = 2 \/ j = 3 \/ j = 4
    OBVIOUS
  <2>1. \A j \in 1..(5 - 1) : ~Has(text, keys[j])
    BY <1>1, <1>6, <2>5
  <2>2. 5 \in 1..Len(keys) /\ Len(keys) \in Nat /\ Has(text, keys[5])
    BY <1>1, <1>6
  <2>3. FirstOf(text, keys, values, none) = values[5]
    BY <2>1, <2>2, FirstOfIs
  <2> QED BY <1>1, <1>6, <2>3 DEF keys, values
<1>7. CASE ~Has(text, k1) /\ ~Has(text, k2) /\ ~Has(text, k3) /\ ~Has(text, k4) /\ ~Has(text, k5)
  <2>1. \A j \in 1..Len(keys) : j = 1 \/ j = 2 \/ j = 3 \/ j = 4 \/ j = 5
    BY <1>1
  <2>2. \A j \in 1..Len(keys) : ~Has(text, keys[j])
    BY <1>1, <1>7, <2>1
  <2>3. FirstOf(text, keys, values, none) = none
    BY <2>2, FirstOfNone
  <2> QED BY <1>7, <2>3 DEF keys, values
<1> QED BY <1>2, <1>3, <1>4, <1>5, <1>6, <1>7

-----------------------------------------------------------------------------
(* Parsers *)

Fingerprints ==
  [isa : ISAs \cup {""}, bits : {0, 32, 64}, endian : {"", "little", "big"},
   float : {"", "hard", "soft"}, libc : {"", "musl", "uClibc", "glibc"},
   musl : DOMAIN Versions \cup {""}]

\* The name of the machine comes with a width; nothing else is touched.
LEMMA UnameFacts ==
  ASSUME fp \in Fingerprints, NEW a, NEW f \in ParseUname(a)
  PROVE  /\ f \in Fingerprints
         /\ f.endian = fp.endian /\ f.float = fp.float /\ f.libc = fp.libc /\ f.musl = fp.musl
         /\ \/ f.isa = fp.isa /\ f.bits = fp.bits
            \/ f.isa \in ISAs /\ f.bits \in {32, 64} /\ (f.isa = "arm" => f.bits = 32)
<1>1. \A k \in DOMAIN unameMap :
        /\ unameMap[k][1] \in ISAs /\ unameMap[k][2] \in {32, 64}
        /\ unameMap[k][1] = "arm" => unameMap[k][2] = 32
  BY DEF unameMap, ISAs
<1>2. f = fp \/ \E k \in DOMAIN unameMap : f = [fp EXCEPT !.isa = unameMap[k][1], !.bits = unameMap[k][2]]
  BY DEF ParseUname
<1>3. ASSUME NEW k \in DOMAIN unameMap, f = [fp EXCEPT !.isa = unameMap[k][1], !.bits = unameMap[k][2]]
      PROVE  /\ f \in Fingerprints
             /\ f.isa = unameMap[k][1] /\ f.bits = unameMap[k][2]
             /\ f.endian = fp.endian /\ f.float = fp.float /\ f.libc = fp.libc /\ f.musl = fp.musl
  BY <1>1, <1>3 DEF Fingerprints
<1> QED BY <1>1, <1>2, <1>3

LEMMA CPUInfoFacts ==
  ASSUME fp \in Fingerprints, NEW a, NEW f \in ParseCPUInfo(a)
  PROVE  /\ f \in Fingerprints
         /\ f.float = fp.float /\ f.libc = fp.libc /\ f.musl = fp.musl
         /\ \/ f.isa = fp.isa /\ f.bits = fp.bits
            \/ f.isa = "mips" /\ f.bits = 32
<1> DEFINE order == FirstOf(a.text, <<"byteorder-little", "byteorder-big">>, <<"little", "big">>, fp.endian)
           mips == Has(a.text, "cpu-model-MIPS") /\ fp.isa = ""
<1>1. order \in {"", "little", "big"}
  <2>1. fp.endian \in {"", "little", "big"}
    BY DEF Fingerprints
  <2>2. order = IF Has(a.text, "byteorder-little") THEN "little"
                ELSE IF Has(a.text, "byteorder-big") THEN "big" ELSE fp.endian
    BY FirstOfTwo
  <2> HIDE DEF order
  <2> QED BY <2>1, <2>2
<1>2. f = [fp EXCEPT !.endian = order, !.isa = IF mips THEN "mips" ELSE @, !.bits = IF mips THEN 32 ELSE @]
  BY DEF ParseCPUInfo
<1> HIDE DEF order, mips
<1>3. CASE mips
  <2>1. f = [fp EXCEPT !.endian = order, !.isa = "mips", !.bits = 32]
    BY <1>2, <1>3
  <2> QED BY <1>1, <2>1 DEF Fingerprints, ISAs
<1>4. CASE ~mips
  <2>1. f = [fp EXCEPT !.endian = order, !.isa = fp.isa, !.bits = fp.bits]
    BY <1>2, <1>4
  <2> QED BY <1>1, <2>1 DEF Fingerprints
<1> QED BY <1>3, <1>4

\* The loader of musl names the float ABI of an ARM device.
LEMMA LibcFacts ==
  ASSUME fp \in Fingerprints, NEW a, NEW f \in ParseLibc(a)
  PROVE  /\ f \in Fingerprints
         /\ f.isa = fp.isa /\ f.bits = fp.bits /\ f.endian = fp.endian /\ f.musl = fp.musl
         /\ f.libc = "musl" => fp.libc = "musl" \/ Has(a.text, "ld-musl")
         /\ \/ f.float = fp.float
            \/ f.float = "hard" /\ Has(a.text, "ld-musl-armhf")
            \/ f.float = "soft" /\ Has(a.text, "ld-musl-arm.")
<1> DEFINE libc == FirstOf(a.text, <<"ld-musl", "ld-uClibc", "libc.so.6">>,
                           <<"musl", "uClibc", "glibc">>, fp.libc)
           abi(none) == FirstOf(a.text, <<"ld-musl-armhf", "ld-musl-arm.">>, <<"hard", "soft">>, none)
           named == Has(a.text, "ld-musl")
<1>1. /\ libc \in {"", "musl", "uClibc", "glibc"}
      /\ libc = "musl" => fp.libc = "musl" \/ Has(a.text, "ld-musl")
  <2>1. fp.libc \in {"", "musl", "uClibc", "glibc"}
    BY DEF Fingerprints
  <2>2. libc = IF Has(a.text, "ld-musl") THEN "musl" ELSE IF Has(a.text, "ld-uClibc") THEN "uClibc"
               ELSE IF Has(a.text, "libc.so.6") THEN "glibc" ELSE fp.libc
    BY FirstOfThree
  <2> HIDE DEF libc
  <2> QED BY <2>1, <2>2
<1>2. \A none : \/ abi(none) = none
                \/ abi(none) = "hard" /\ Has(a.text, "ld-musl-armhf")
                \/ abi(none) = "soft" /\ Has(a.text, "ld-musl-arm.")
  BY FirstOfTwo
<1>3. f = [fp EXCEPT !.libc = libc, !.float = IF named /\ @ = "" THEN abi(@) ELSE @]
  BY DEF ParseLibc
<1> HIDE DEF libc, abi, named
<1>4. f = [fp EXCEPT !.libc = libc, !.float = IF named /\ fp.float = "" THEN abi(fp.float) ELSE fp.float]
  BY <1>3
<1> DEFINE new == IF named /\ fp.float = "" THEN abi(fp.float) ELSE fp.float
<1>5. \/ new = fp.float
      \/ new = "hard" /\ Has(a.text, "ld-musl-armhf")
      \/ new = "soft" /\ Has(a.text, "ld-musl-arm.")
  BY <1>2
<1>6. f = [fp EXCEPT !.libc = libc, !.float = new]
  BY <1>4
<1> HIDE DEF new
<1> QED BY <1>1, <1>5, <1>6 DEF Fingerprints

\* What file(1) says, all of it or its beginning.
FileISA(text, none) ==
  FirstOf(text, <<"aarch64", "arm", "mips", "80386", "x86-64">>,
          <<"aarch64", "arm", "mips", "x86", "x86_64">>, none)

LEMMA FileFacts ==
  ASSUME fp \in Fingerprints, NEW a, NEW f \in ParseFileOutput(a)
  PROVE  /\ f \in Fingerprints
         /\ f.bits = IF Has(a.text, "32-bit") THEN 32 ELSE IF Has(a.text, "64-bit") THEN 64 ELSE fp.bits
         /\ f.endian = IF Has(a.text, "lsb") THEN "little" ELSE IF Has(a.text, "msb") THEN "big" ELSE fp.endian
         /\ f.isa = FileISA(a.text, fp.isa)
         /\ f.float = fp.float /\ f.libc = fp.libc /\ f.musl = fp.musl
<1> DEFINE bits == FirstOf(a.text, <<"32-bit", "64-bit">>, <<32, 64>>, fp.bits)
           endian == FirstOf(a.text, <<"lsb", "msb">>, <<"little", "big">>, fp.endian)
           isa == FileISA(a.text, fp.isa)
<1>1. f = [fp EXCEPT !.bits = bits, !.endian = endian, !.isa = isa]
  BY DEF ParseFileOutput, FileISA
<1>2. bits = IF Has(a.text, "32-bit") THEN 32 ELSE IF Has(a.text, "64-bit") THEN 64 ELSE fp.bits
  BY FirstOfTwo
<1>3. endian = IF Has(a.text, "lsb") THEN "little" ELSE IF Has(a.text, "msb") THEN "big" ELSE fp.endian
  BY FirstOfTwo
<1>4. isa = IF Has(a.text, "aarch64") THEN "aarch64" ELSE IF Has(a.text, "arm") THEN "arm"
            ELSE IF Has(a.text, "mips") THEN "mips" ELSE IF Has(a.text, "80386") THEN "x86"
            ELSE IF Has(a.text, "x86-64") THEN "x86_64" ELSE fp.isa
  BY FirstOfFive DEF FileISA
<1> HIDE DEF bits, endian, isa
<1>5. fp.bits \in {0, 32, 64} /\ fp.endian \in {"", "little", "big"} /\ fp.isa \in ISAs \cup {""}
  BY DEF Fingerprints
<1>6. bits \in {0, 32, 64} /\ endian \in {"", "little", "big"} /\ isa \in ISAs \cup {""}
  BY <1>2, <1>3, <1>4, <1>5 DEF ISAs
<1>7. /\ f \in Fingerprints /\ f.bits = bits /\ f.endian = endian /\ f.isa = isa
      /\ f.float = fp.float /\ f.libc = fp.libc /\ f.musl = fp.musl
  BY <1>1, <1>6 DEF Fingerprints
<1> QED BY <1>2, <1>3, <1>7 DEF isa

\* At its own place it gives the width first and the machine last, and both are
\* those of the header.
LEMMA FileOwn ==
  ASSUME dev \in Devices, fp \in Fingerprints, NEW a, IsAnswer("any", a, "file"), a.own,
         NEW f \in ParseFileOutput(a)
  PROVE  /\ \/ f.isa = fp.isa /\ f.bits \in {fp.bits, dev.bits}
            \/ f.isa = dev.isa /\ f.bits = dev.bits /\ f.endian = dev.endian
         /\ "file" \in dev.tools /\ a.text = Output("file") =>
              f.isa = dev.isa /\ f.bits = dev.bits /\ f.endian = dev.endian
<1> DEFINE u == {IF dev.bits = 32 THEN "32-bit" ELSE "64-bit"}
           v == {IF dev.endian = "little" THEN "lsb" ELSE "msb"}
           w == FileWords
           t == a.text
           n == Len(t)
<1>1. Output("file") = IF "file" \in dev.tools THEN <<u, v, w>> ELSE <<>>
  BY DEF Output, When
<1>2. n \in 0..Len(Output("file")) /\ \A i \in 1..n : t[i] = Output("file")[i]
  BY OwnFacts
<1>3. /\ f.bits = IF Has(t, "32-bit") THEN 32 ELSE IF Has(t, "64-bit") THEN 64 ELSE fp.bits
      /\ f.endian = IF Has(t, "lsb") THEN "little" ELSE IF Has(t, "msb") THEN "big" ELSE fp.endian
      /\ f.isa = IF Has(t, "aarch64") THEN "aarch64" ELSE IF Has(t, "arm") THEN "arm"
                 ELSE IF Has(t, "mips") THEN "mips" ELSE IF Has(t, "80386") THEN "x86"
                 ELSE IF Has(t, "x86-64") THEN "x86_64" ELSE fp.isa
  BY FileFacts, FirstOfFive DEF FileISA
<1>4. CASE "file" \notin dev.tools
  <2>1. n = 0
    BY <1>1, <1>2, <1>4
  <2>2. \A k : ~Has(t, k)
    BY <2>1 DEF Has
  <2> HIDE DEF t
  <2> QED BY <1>3, <1>4, <2>2
<1>5. CASE "file" \in dev.tools
  <2> HIDE DEF t, u, v, w
  <2> DEFINE o == Output("file")
  <2>1. Len(o) = 3 /\ o[1] = u /\ o[2] = v /\ o[3] = w
    BY <1>1, <1>5
  <2>2. n \in 0..3 /\ \A i \in 1..n : t[i] = o[i]
    BY <1>2, <2>1
  <2> HIDE DEF o
  <2>3. \A k : Has(t, k) <=> (1 <= n /\ k \in u) \/ (2 <= n /\ k \in v) \/ (3 <= n /\ k \in w)
    <3> TAKE k
    <3>1. Has(t, k) <=> \E i \in 1..n : k \in o[i]
      BY <2>2 DEF Has
    <3>2. CASE n = 0
      BY <3>1, <3>2
    <3>3. CASE n = 1
      BY <3>1, <3>3, <2>1
    <3>4. CASE n = 2
      BY <3>1, <3>4, <2>1
    <3>5. CASE n = 3
      BY <3>1, <3>5, <2>1
    <3> HIDE DEF n
    <3> QED BY <3>2, <3>3, <3>4, <3>5, <2>2
  <2> HIDE DEF n
  <2>4. /\ dev.bits \in {32, 64} /\ dev.endian \in {"little", "big"} /\ dev.isa \in ISAs
    BY DeviceFacts
  <2>5. \A k \in {"aarch64", "arm", "mips", "80386", "x86-64"} : k \notin u /\ k \notin v
    BY DEF u, v
  <2>6. "lsb" \notin u /\ "msb" \notin u /\ ("lsb" \in v <=> dev.endian = "little")
        /\ ("msb" \in v <=> dev.endian = "big")
    BY <2>4 DEF u, v
  <2>7. ("32-bit" \in u <=> dev.bits = 32) /\ ("64-bit" \in u <=> dev.bits = 64)
        /\ "32-bit" \notin v /\ "64-bit" \notin v
    BY <2>4 DEF u, v
  <2>8. /\ {"32-bit", "64-bit", "lsb", "msb"} \cap w = {}
        /\ "aarch64" \in w <=> dev.isa = "aarch64"
        /\ "arm" \in w <=> dev.isa \in {"aarch64", "arm"}
        /\ "mips" \in w <=> dev.isa = "mips"
        /\ "80386" \in w <=> dev.isa = "x86"
        /\ "x86-64" \in w <=> dev.isa = "x86_64"
    BY <2>4 DEF w, FileWords, ISAs
  <2>9. 1 <= n => f.bits = dev.bits
    BY <1>3, <2>3, <2>4, <2>7, <2>8
  <2>10. n = 0 => f.bits = fp.bits
    BY <1>3, <2>3
  <2>11. n < 3 => f.isa = fp.isa
    <3>1. SUFFICES ASSUME n < 3 PROVE f.isa = fp.isa
      OBVIOUS
    <3>2. ~(3 <= n)
      BY <2>2, <3>1 DEF n
    <3>3. \A k \in {"aarch64", "arm", "mips", "80386", "x86-64"} : ~Has(t, k)
      BY <2>3, <2>5, <3>2
    <3> QED BY <1>3, <3>3
  <2>12. n = 3 => f.endian = dev.endian
    BY <1>3, <2>3, <2>4, <2>6, <2>8
  <2>13. n = 3 => f.isa = dev.isa
    BY <1>3, <2>3, <2>4, <2>5, <2>8 DEF ISAs
  <2>14. t = Output("file") => n = 3
    BY <2>1 DEF n, o
  <2>15. n = 0 \/ (1 <= n /\ n < 3) \/ (1 <= n /\ n = 3)
    BY <2>2
  <2> QED BY <2>9, <2>10, <2>11, <2>12, <2>13, <2>14, <2>15 DEF t
<1> QED BY <1>4, <1>5

LEMMA ODFacts ==
  ASSUME dev \in Devices, fp \in Fingerprints, NEW a, NEW f \in ParseODOutput(a)
  PROVE  f \in Fingerprints /\ f.libc = fp.libc /\ f.musl = fp.musl
<1>0. /\ dev.isa \in ISAs /\ dev.bits \in {32, 64} /\ dev.endian \in {"little", "big"}
      /\ dev.float \in {"hard", "soft", ""}
  BY DeviceFacts
<1>1. CASE f = fp
  BY <1>1
<1>2. CASE f \in Misread
  <2> DEFINE floats == IF fp.float = "" THEN {"", "hard", "soft"} ELSE {fp.float}
  <2>1. floats \subseteq {"", "hard", "soft"}
    BY DEF Fingerprints
  <2> DEFINE E == {fp.endian, "little", "big"}
             I == {fp.isa} \cup ISAs
             new(e, i, g) == [fp EXCEPT !.endian = e, !.isa = i, !.float = g]
  <2>5. f \in {new(e, i, g) : e \in E, i \in I, g \in floats}
    <3>1. Misread = {new(e, i, g) : e \in E, i \in I, g \in floats}
      BY DEF Misread
    <3> HIDE DEF E, I, new, floats
    <3> QED BY <1>2, <3>1
  <2>6. \E e \in E, i \in I, g \in floats : f = new(e, i, g)
    <3> HIDE DEF E, I, new, floats
    <3> QED BY <2>5
  <2> HIDE DEF floats
  <2>3. PICK e \in E, i \in I, g \in floats : f = new(e, i, g)
    BY <2>6
  <2>4. g \in {"", "hard", "soft"} /\ e \in {"", "little", "big"} /\ i \in ISAs \cup {""}
    BY <2>1 DEF Fingerprints
  <2> QED BY <2>3, <2>4 DEF Fingerprints
<1>3. CASE \E g \in {fp.float, dev.float} :
             f = [fp EXCEPT !.bits = dev.bits, !.endian = dev.endian, !.isa = dev.isa, !.float = g]
  <2>1. PICK g \in {fp.float, dev.float} :
             f = [fp EXCEPT !.bits = dev.bits, !.endian = dev.endian, !.isa = dev.isa, !.float = g]
    BY <1>3
  <2>2. g \in {"", "hard", "soft"}
    BY <1>0 DEF Fingerprints
  <2> QED BY <1>0, <2>1, <2>2 DEF Fingerprints
<1>4. CASE ~Has(a.text, "byte-40")
  BY <1>1, <1>4 DEF ParseODOutput
<1>5. CASE Has(a.text, "byte-40") /\ a.text # Dump
  BY <1>2, <1>5 DEF ParseODOutput
<1>6. CASE Has(a.text, "byte-40") /\ a.text = Dump
  <2> DEFINE own == dev.isa = "arm" /\ fp.float = "" /\ dev.endian = "little" /\ dev.flags
  <2>1. f = [fp EXCEPT !.bits = dev.bits, !.endian = dev.endian, !.isa = dev.isa,
                       !.float = IF own THEN dev.float ELSE fp.float]
    BY <1>6 DEF ParseODOutput
  <2> HIDE DEF own
  <2>2. CASE own
    BY <1>3, <2>1, <2>2
  <2>3. CASE ~own
    BY <1>3, <2>1, <2>3
  <2> QED BY <2>2, <2>3
<1> QED BY <1>4, <1>5, <1>6

\* At its own place the dump is whole, or has no end and is not parsed.
LEMMA ODOwn ==
  ASSUME dev \in Devices, fp \in Fingerprints, NEW a, IsAnswer("any", a, "od"), a.own,
         NEW f \in ParseODOutput(a)
  PROVE  /\ \/ f = fp
            \/ /\ f.isa = dev.isa /\ f.bits = dev.bits /\ f.endian = dev.endian
               /\ f.float = fp.float \/ (dev.isa = "arm" /\ f.float = dev.float)
         /\ "od" \in dev.tools /\ a.text = Output("od") =>
              f.isa = dev.isa /\ f.bits = dev.bits /\ f.endian = dev.endian
<1> DEFINE t == a.text
           n == Len(t)
           o == Output("od")
<1>1. Len(o) \in {0, 2} /\ ("od" \in dev.tools => o = Dump) /\ ("od" \notin dev.tools => Len(o) = 0)
  BY DEF Output, When, Dump
<1>2. Dump[1] = {"od"} /\ Dump[2] = {"byte-40"} /\ Len(Dump) = 2
  BY DEF Dump
<1>3. n \in 0..Len(o) /\ \A i \in 1..n : t[i] = o[i]
  BY OwnFacts
<1>4. o \in Seq(Words) /\ t \in Seq(Words)
  BY ReplyTexts DEF IsAnswer, Texts
<1>5. Has(t, "byte-40") <=> n = 2 /\ "od" \in dev.tools
  <2> HIDE DEF t, o
  <2>1. Has(t, "byte-40") <=> \E i \in 1..n : "byte-40" \in o[i]
    BY <1>3 DEF Has
  <2>2. CASE "od" \notin dev.tools
    <3>1. n = 0
      BY <1>1, <1>3, <2>2
    <3> QED BY <2>1, <2>2, <3>1
  <2>3. CASE "od" \in dev.tools
    <3>1. o[1] = {"od"} /\ o[2] = {"byte-40"} /\ n \in 0..2
      BY <1>1, <1>2, <1>3, <2>3
    <3>2. "byte-40" \notin o[1] /\ "byte-40" \in o[2]
      BY <3>1
    <3>3. CASE n = 2
      BY <2>1, <2>3, <3>2, <3>3
    <3>4. CASE n # 2
      <4>1. \A i \in 1..n : i = 1
        <5> HIDE DEF n
        <5> QED BY <3>1, <3>4
      <4> QED BY <2>1, <3>2, <3>4, <4>1
    <3> QED BY <3>3, <3>4
  <2> QED BY <2>2, <2>3
<1>6. n = 2 /\ "od" \in dev.tools => t = Dump
  <2>1. n = 2 /\ "od" \in dev.tools => Len(t) = Len(o) /\ \A i \in 1..Len(t) : t[i] = o[i]
    BY <1>1, <1>2, <1>3
  <2> HIDE DEF t, o
  <2>2. n = 2 /\ "od" \in dev.tools => t = o
    BY <2>1, <1>4, SeqEqual
  <2> QED BY <1>1, <2>2
<1>7. CASE ~Has(t, "byte-40")
  <2>1. f = fp
    BY <1>7 DEF ParseODOutput
  <2>2. ~("od" \in dev.tools /\ t = o)
    BY <1>1, <1>2, <1>5, <1>7
  <2> QED BY <2>1, <2>2
<1>8. CASE Has(t, "byte-40")
  <2>1. a.text = Dump
    BY <1>5, <1>6, <1>8
  <2> DEFINE named == dev.isa = "arm" /\ fp.float = "" /\ dev.endian = "little" /\ dev.flags
  <2>2. f = [fp EXCEPT !.bits = dev.bits, !.endian = dev.endian, !.isa = dev.isa,
                       !.float = IF named THEN dev.float ELSE fp.float]
    BY <1>8, <2>1 DEF ParseODOutput
  <2>3. named => dev.isa = "arm"
    OBVIOUS
  <2> HIDE DEF named
  <2> DEFINE g == IF named THEN dev.float ELSE fp.float
  <2>5. f = [fp EXCEPT !.bits = dev.bits, !.endian = dev.endian, !.isa = dev.isa, !.float = g]
    BY <2>2
  <2> HIDE DEF g
  <2>6. f.isa = dev.isa /\ f.bits = dev.bits /\ f.endian = dev.endian /\ f.float = g
    BY <2>5 DEF Fingerprints
  <2>4. f.isa = dev.isa /\ f.bits = dev.bits /\ f.endian = dev.endian
        /\ f.float = IF named THEN dev.float ELSE fp.float
    BY <2>6 DEF g
  <2> QED BY <2>3, <2>4
<1> QED BY <1>7, <1>8

LEMMA ReadelfFacts ==
  ASSUME fp \in Fingerprints, NEW a, NEW f \in ParseReadelfOutput(a)
  PROVE  /\ f \in Fingerprints
         /\ f.isa = fp.isa /\ f.bits = fp.bits /\ f.endian = fp.endian
         /\ f.libc = fp.libc /\ f.musl = fp.musl
         /\ f.float = IF Has(a.text, "VFP-registers") THEN "hard"
                      ELSE IF Has(a.text, "Tag_ABI_VFP_args") THEN "soft" ELSE fp.float
<1> DEFINE float == FirstOf(a.text, <<"VFP-registers", "Tag_ABI_VFP_args">>, <<"hard", "soft">>, fp.float)
<1>1. float = IF Has(a.text, "VFP-registers") THEN "hard"
              ELSE IF Has(a.text, "Tag_ABI_VFP_args") THEN "soft" ELSE fp.float
  BY FirstOfTwo
<1>2. f = [fp EXCEPT !.float = float]
  BY DEF ParseReadelfOutput
<1> HIDE DEF float
<1>3. fp.float \in {"", "hard", "soft"}
  BY DEF Fingerprints
<1>4. float \in {"", "hard", "soft"}
  BY <1>1, <1>3
<1>5. f \in Fingerprints /\ f.float = float /\ f.isa = fp.isa /\ f.bits = fp.bits
      /\ f.endian = fp.endian /\ f.libc = fp.libc /\ f.musl = fp.musl
  BY <1>2, <1>4 DEF Fingerprints
<1> QED BY <1>1, <1>5

\* A version is only taken from a text that says it and says "musl".
LEMMA MuslFacts ==
  ASSUME fp \in Fingerprints, NEW a, NEW f \in ParseMuslVersion(a)
  PROVE  /\ f \in Fingerprints
         /\ f.isa = fp.isa /\ f.bits = fp.bits /\ f.endian = fp.endian
         /\ f.float = fp.float /\ f.libc = fp.libc
         /\ \/ f.musl = fp.musl
            \/ f.musl \in VersionNames /\ Has(a.text, "musl") /\ Has(a.text, f.musl)
<1> DEFINE v == VersionIn(a.text)
<1>1. CASE a.failed \/ ~Has(a.text, "musl") \/ v = ""
  <2>2. ParseMuslVersion(a) = {fp}
    BY <1>1 DEF ParseMuslVersion
  <2>1. f = fp
    BY <2>2
  <2> QED BY <2>1
<1>2. CASE ~(a.failed \/ ~Has(a.text, "musl") \/ v = "")
  <2>1. f = [fp EXCEPT !.musl = v]
    BY <1>2 DEF ParseMuslVersion
  <2>2. \E x \in VersionNames : Has(a.text, x)
    BY <1>2, VersionsDomain DEF VersionIn
  <2>3. v = CHOOSE x \in VersionNames : Has(a.text, x)
    BY <2>2, VersionsDomain DEF VersionIn
  <2>4. v \in VersionNames /\ Has(a.text, v)
    BY <2>2, <2>3
  <2> HIDE DEF v
  <2>5. Has(a.text, "musl")
    BY <1>2
  <2>6. v \in DOMAIN Versions \cup {""}
    BY <2>4, VersionsDomain
  <2>7. /\ f \in Fingerprints /\ f.musl = v
        /\ f.isa = fp.isa /\ f.bits = fp.bits /\ f.endian = fp.endian
        /\ f.float = fp.float /\ f.libc = fp.libc
    BY <2>1, <2>6 DEF Fingerprints
  <2> QED BY <2>4, <2>5, <2>7
<1> QED BY <1>1, <1>2

-----------------------------------------------------------------------------
(* The inductive invariant *)

\* Nothing reads the header before these.
BeforeHeader == {"dial", "uname", "cpuinfo", "version", "libc", "hisi", "umap", "dmesg", "file"}
WithHelper   == {"upload", "append", "chmod", "run"}

\* What the fingerprint says of the header as long as every answer was read at
\* its own place: a machine comes with a width; what has answered with the whole
\* header is right in everything; an ARM device that is taken for one is 32 bits
\* wide; a float ABI of an ARM device is its own.
FingerprintInv ==
  ~shifted =>
    /\ fp.isa # "" => fp.bits # 0
    /\ elf # {} => fp.isa = dev.isa /\ fp.bits = dev.bits /\ fp.endian = dev.endian
    /\ dev.isa = "arm" /\ fp.isa = "arm" => fp.bits = 32
    /\ dev.isa = "arm" /\ fp.float # "" => fp.float = dev.float

\* Phase 2 starts with a machine, the helper with an ARM machine of unknown ABI.
PhaseInv ==
  /\ pc \in BeforeHeader => elf = {}
  /\ ~shifted /\ pc \in WithHelper \cup {"phase2", "derive", "done"} => fp.isa # ""
  /\ ~shifted /\ pc \in WithHelper => fp.isa = "arm" /\ fp.float = ""
  /\ ~shifted /\ pc = "done" /\ elf # {} => timeT \in {"", DeviceTimeT}

\* Until the list of /lib has been asked for.
Before == {"dial", "uname", "cpuinfo", "version", "libc"}

\* The list of /lib is the first text that names the loader of musl, and nothing
\* behind it has a version of something else beside the word musl: whatever is
\* read for the banner of the loader, the version in it is the loader's.
TellInv ==
  /\ pc \in Before => fp.libc # "musl" /\ StreamTold("loader")
  /\ fp.libc = "musl" => StreamTold("version")
  /\ pc = "musl" => fp.libc = "musl"
  /\ MuslVersionIsMusls

IInv == TypeOK /\ SessionInv /\ TellInv /\ FingerprintInv /\ PhaseInv

LEMMA TypeFacts ==
  ASSUME TypeOK
  PROVE  /\ dev \in Devices /\ fp \in Fingerprints /\ timeT \in {"", "32-bit", "64-bit"}
         /\ helper \in [file : {"absent", "partial", "whole"}, exec : BOOLEAN]
         /\ others \in 0..MaxOtherRuns /\ elf \subseteq {"file", "od", "helper"}
         /\ timeouts \in 0..MaxTimeouts /\ Len(stream) <= timeouts
BY DEF TypeOK, Fingerprints

Counters ==
  {"dial", "uname", "cpuinfo", "version", "libc", "hisi", "umap", "dmesg", "file", "od",
   "readelf", "procversion", "busybox", "model", "glibc", "musl", "meminfo", "df", "mounts",
   "uptime", "tools", "endianness", "phase2", "upload", "append", "chmod", "run", "derive",
   "done", "failed"}

LEMMA TypeFrom ==
  ASSUME dev \in Devices, fp \in Fingerprints, timeT \in {"", "32-bit", "64-bit"},
         pc \in Counters, SessionInv,
         helper \in [file : {"absent", "partial", "whole"}, exec : BOOLEAN],
         others \in 0..MaxOtherRuns, elf \subseteq {"file", "od", "helper"}
  PROVE  TypeOK
BY DEF TypeOK, Fingerprints, SessionInv, Counters

\* A command of phase 1 or of the probe has been answered.
Asked(c, next, a) ==
  /\ pc = c /\ pc' = next
  /\ a \in Answers(c) /\ Receive(a)
  /\ elf' = IF c \in {"file", "od"} /\ c \in dev.tools /\ a.own /\ a.text = Output(c)
            THEN elf \cup {c} ELSE elf
  /\ UNCHANGED <<dev, timeT, helperVars>>

\* Whichever command it was, it is enough to look at what its parser has done.
LEMMA AskedKeeps ==
  ASSUME IInv, NEW c \in Counters, NEW next \in Counters, NEW a, Asked(c, next, a),
         next \in {"phase2", "derive", "done"} \cup WithHelper => FALSE,
         next \in BeforeHeader => c \in BeforeHeader \ {"file"},
         c = "file" \/ c = "od" \/ elf' = elf
  PROVE  /\ dev \in Devices /\ fp \in Fingerprints /\ IsAnswer("any", a, c)
         /\ SessionInv' /\ PhaseInv' /\ dev' = dev
         /\ ~shifted' => ~shifted /\ a.own
         /\ fp' \in Fingerprints => TypeOK'
<1>1. dev \in Devices /\ fp \in Fingerprints /\ SessionInv
  BY TypeFacts DEF IInv
<1>2. IsAnswer("any", a, c)
  <2>1. Tells("any", c)
    BY <1>1, ReplyTexts DEF Tells, StreamTold, Told
  <2> QED BY <1>1, <2>1, AnswersAre DEF Asked
<1>3. dev' = dev /\ timeT' = timeT /\ helper' = helper /\ others' = others /\ Receive(a)
  BY DEF Asked, helperVars
<1>4. SessionInv'
  BY <1>1, <1>2, <1>3, ReceiveKeeps
<1>5. ~shifted' => ~shifted /\ a.own
  BY <1>3 DEF Receive
<1>6. elf' \subseteq {"file", "od", "helper"}
  <2>1. elf \subseteq {"file", "od", "helper"}
    BY TypeFacts DEF IInv
  <2> QED BY <2>1 DEF Asked
<1>7. fp' \in Fingerprints => TypeOK'
  <2>1. SUFFICES ASSUME fp' \in Fingerprints PROVE TypeOK'
    OBVIOUS
  <2>2. pc' \in Counters
    BY DEF Asked
  <2>3. /\ timeT' \in {"", "32-bit", "64-bit"} /\ others' \in 0..MaxOtherRuns /\ dev' \in Devices
        /\ helper' \in [file : {"absent", "partial", "whole"}, exec : BOOLEAN]
    BY <1>3, TypeFacts DEF IInv
  <2> QED BY <1>4, <1>6, <2>1, <2>2, <2>3 DEF TypeOK, Fingerprints, SessionInv, Counters
<1>8. PhaseInv'
  <2>1. pc' = next /\ pc = c /\ (next \in BeforeHeader => elf' = elf /\ elf = {})
    <3>1. pc' = next /\ pc = c
      BY DEF Asked
    <3>2. next \in BeforeHeader => c # "file" /\ c # "od" /\ c \in BeforeHeader
      BY DEF BeforeHeader
    <3> QED BY <3>1, <3>2 DEF PhaseInv, IInv
  <2> QED BY <2>1 DEF PhaseInv, BeforeHeader, WithHelper
<1> QED BY <1>1, <1>2, <1>3, <1>4, <1>5, <1>7, <1>8

\* A version of musl is the device's, and the texts behind a command tell no more
\* than its reply and those before it.
LEMMA AskedTells ==
  ASSUME IInv, NEW c \in Counters, NEW next \in Counters, NEW a, Asked(c, next, a), c # "libc",
         next \in Before => c \in Before, next = "musl" => fp.libc = "musl",
         fp'.libc = fp.libc,
         fp'.musl = fp.musl \/ ("musl" \in dev.libcs /\ fp'.musl = dev.musl)
  PROVE  TellInv'
<1>1. /\ dev \in Devices /\ SessionInv /\ dev' = dev
      /\ pc = c /\ pc' = next /\ a \in Answers(c) /\ Receive(a)
  BY TypeFacts DEF IInv, Asked
<1>2. next \in Before => StreamTold("loader")'
  <2>1. SUFFICES ASSUME next \in Before PROVE StreamTold("loader")'
    OBVIOUS
  <2>2. Tells("loader", c)
    BY <1>1, <2>1, ReplyTexts DEF Tells, IInv, TellInv
  <2> QED BY <1>1, <2>2, AnswersAre, ReceiveTells
<1>3. fp.libc = "musl" => StreamTold("version")'
  <2>1. SUFFICES ASSUME fp.libc = "musl" PROVE StreamTold("version")'
    OBVIOUS
  <2>2. c \notin {"uname", "version"} /\ StreamTold("version")
    BY <1>1, <2>1 DEF IInv, TellInv, Before
  <2>3. Tells("version", c)
    BY <1>1, <2>2, ReplyTexts DEF Tells
  <2> QED BY <1>1, <2>3, AnswersAre, ReceiveTells
<1>4. next \in Before => fp'.libc # "musl"
  BY <1>1 DEF IInv, TellInv
<1>5. MuslVersionIsMusls'
  BY <1>1 DEF IInv, TellInv, MuslVersionIsMusls
<1> QED BY <1>1, <1>2, <1>3, <1>4, <1>5 DEF TellInv

\* What a parser has to do, at least when the answer was read at its own place.
LEMMA FingerprintKept ==
  ASSUME IInv, dev' = dev, ~shifted' => ~shifted,
         ~shifted' =>
           /\ \/ fp'.isa = fp.isa /\ fp'.bits = fp.bits
              \/ fp'.bits # 0 /\ (dev.isa = "arm" /\ fp'.isa = "arm" => fp'.bits = 32)
           /\ fp'.float = fp.float \/ (dev.isa = "arm" => fp'.float = dev.float)
           /\ \/ elf' = {}
              \/ elf' = elf /\ fp'.isa = fp.isa /\ fp'.bits = fp.bits /\ fp'.endian = fp.endian
              \/ fp'.isa = dev.isa /\ fp'.bits = dev.bits /\ fp'.endian = dev.endian
  PROVE  FingerprintInv'
<1>1. SUFFICES ASSUME ~shifted'
               PROVE  /\ fp'.isa # "" => fp'.bits # 0
                      /\ elf' # {} => fp'.isa = dev.isa /\ fp'.bits = dev.bits /\ fp'.endian = dev.endian
                      /\ dev.isa = "arm" /\ fp'.isa = "arm" => fp'.bits = 32
                      /\ dev.isa = "arm" /\ fp'.float # "" => fp'.float = dev.float
  BY DEF FingerprintInv
<1>2. /\ fp.isa # "" => fp.bits # 0
      /\ elf # {} => fp.isa = dev.isa /\ fp.bits = dev.bits /\ fp.endian = dev.endian
      /\ dev.isa = "arm" /\ fp.isa = "arm" => fp.bits = 32
      /\ dev.isa = "arm" /\ fp.float # "" => fp.float = dev.float
  BY <1>1 DEF IInv, FingerprintInv
<1>3. /\ fp'.isa # "" => fp'.bits # 0
      /\ dev.isa = "arm" /\ fp'.isa = "arm" => fp'.bits = 32
  <2>1. CASE fp'.isa = fp.isa /\ fp'.bits = fp.bits
    BY <1>2, <2>1
  <2>2. CASE fp'.bits # 0 /\ (dev.isa = "arm" /\ fp'.isa = "arm" => fp'.bits = 32)
    BY <2>2
  <2> QED BY <1>1, <2>1, <2>2
<1>4. dev.isa = "arm" /\ fp'.float # "" => fp'.float = dev.float
  BY <1>1, <1>2
<1>5. elf' # {} => fp'.isa = dev.isa /\ fp'.bits = dev.bits /\ fp'.endian = dev.endian
  BY <1>1, <1>2
<1> QED BY <1>3, <1>4, <1>5

LEMMA AskUnameKeeps ==
  ASSUME IInv, AskUname
  PROVE  IInv'
<1>1. PICK a : Asked("uname", "cpuinfo", a) /\ fp' \in ParseUname(a) /\ elf' = elf
  BY DEF AskUname, Ask, Asked
<1>2. "uname" \in Counters /\ "cpuinfo" \in Counters /\ "cpuinfo" \in BeforeHeader
      /\ "cpuinfo" \notin {"phase2", "derive", "done"} \cup WithHelper
      /\ "uname" \in BeforeHeader \ {"file"}
  BY DEF Counters, BeforeHeader, WithHelper
<1>3. /\ dev \in Devices /\ fp \in Fingerprints /\ SessionInv' /\ PhaseInv' /\ dev' = dev
      /\ ~shifted' => ~shifted /\ a.own
      /\ fp' \in Fingerprints => TypeOK'
  BY <1>1, <1>2, AskedKeeps
<1>4. /\ fp' \in Fingerprints
      /\ fp'.float = fp.float /\ fp'.libc = fp.libc /\ fp'.musl = fp.musl
      /\ \/ fp'.isa = fp.isa /\ fp'.bits = fp.bits
         \/ fp'.isa \in ISAs /\ fp'.bits \in {32, 64} /\ (fp'.isa = "arm" => fp'.bits = 32)
  BY <1>1, <1>3, UnameFacts
<1>5. elf' = {}
  BY <1>1, <1>2 DEF Asked, IInv, PhaseInv
<1>6. fp'.bits \in {32, 64} => fp'.bits # 0
  OBVIOUS
<1>7. FingerprintInv'
  BY <1>3, <1>4, <1>5, <1>6, FingerprintKept
<1>8. TellInv'
  BY <1>1, <1>2, <1>3, <1>4, AskedTells DEF Before
<1> QED BY <1>3, <1>4, <1>7, <1>8 DEF IInv

LEMMA AskCPUInfoKeeps ==
  ASSUME IInv, AskCPUInfo
  PROVE  IInv'
<1>1. PICK a : Asked("cpuinfo", "version", a) /\ fp' \in ParseCPUInfo(a) /\ elf' = elf
  BY DEF AskCPUInfo, Ask, Asked
<1>2. "cpuinfo" \in Counters /\ "version" \in Counters /\ "version" \in BeforeHeader
      /\ "version" \notin {"phase2", "derive", "done"} \cup WithHelper
      /\ "cpuinfo" \in BeforeHeader \ {"file"}
  BY DEF Counters, BeforeHeader, WithHelper
<1>3. /\ dev \in Devices /\ fp \in Fingerprints /\ SessionInv' /\ PhaseInv' /\ dev' = dev
      /\ ~shifted' => ~shifted /\ a.own
      /\ fp' \in Fingerprints => TypeOK'
  BY <1>1, <1>2, AskedKeeps
<1>4. /\ fp' \in Fingerprints
      /\ fp'.float = fp.float /\ fp'.libc = fp.libc /\ fp'.musl = fp.musl
      /\ \/ fp'.isa = fp.isa /\ fp'.bits = fp.bits
         \/ fp'.isa = "mips" /\ fp'.bits = 32
  BY <1>1, <1>3, CPUInfoFacts
<1>5. elf' = {}
  BY <1>1, <1>2 DEF Asked, IInv, PhaseInv
<1>6. fp'.bits = 32 => fp'.bits # 0
  OBVIOUS
<1>7. FingerprintInv'
  BY <1>3, <1>4, <1>5, <1>6, FingerprintKept
<1>8. TellInv'
  BY <1>1, <1>2, <1>3, <1>4, AskedTells DEF Before
<1> QED BY <1>3, <1>4, <1>7, <1>8 DEF IInv

\* A command whose answer is kept or displayed.
LEMMA AskedOnly ==
  ASSUME IInv, NEW c \in Counters, NEW next \in Counters, NEW a, Asked(c, next, a), UNCHANGED fp,
         c # "file", c # "od", next \notin {"phase2", "derive", "done"} \cup WithHelper,
         next \in BeforeHeader => c \in BeforeHeader,
         c # "libc", next \in Before => c \in Before, next = "musl" => fp.libc = "musl"
  PROVE  IInv'
<1>1. elf' = elf
  BY DEF Asked
<1>2. next \in BeforeHeader => c \in BeforeHeader \ {"file"}
  OBVIOUS
<1>3. /\ fp \in Fingerprints /\ SessionInv' /\ PhaseInv' /\ dev' = dev
      /\ ~shifted' => ~shifted
      /\ fp' \in Fingerprints => TypeOK'
  BY <1>1, <1>2, AskedKeeps
<1>4. FingerprintInv'
  BY <1>1, <1>3, FingerprintKept
<1>5. TellInv'
  BY AskedTells
<1> QED BY <1>3, <1>4, <1>5 DEF IInv

LEMMA AskVersionKeeps ==
  ASSUME IInv, AskVersion
  PROVE  IInv'
<1>1. PICK a : Asked("version", "libc", a) /\ UNCHANGED fp
  BY DEF AskVersion, Asked
<1>2. "version" \in Counters /\ "libc" \in Counters /\ "version" \in BeforeHeader
      /\ "libc" \notin {"phase2", "derive", "done"} \cup WithHelper
  BY DEF Counters, BeforeHeader, WithHelper
<1> QED BY <1>1, <1>2, AskedOnly DEF Before

LEMMA AskSoCKeeps ==
  ASSUME IInv, AskSoC
  PROVE  IInv'
<1>1. \E c \in {"hisi", "umap", "dmesg"}, next \in {"umap", "dmesg", "file"} :
        \E a : Asked(c, next, a) /\ UNCHANGED fp
  <2>1. CASE Ask("hisi", "umap", Keep)
    BY <2>1 DEF Ask, Asked, Keep
  <2>2. CASE Ask("umap", "dmesg", Keep)
    BY <2>2 DEF Ask, Asked, Keep
  <2>3. CASE Ask("dmesg", "file", Keep)
    BY <2>3 DEF Ask, Asked, Keep
  <2> QED BY <2>1, <2>2, <2>3 DEF AskSoC
<1>2. PICK c \in {"hisi", "umap", "dmesg"}, next \in {"umap", "dmesg", "file"} :
        \E a : Asked(c, next, a) /\ UNCHANGED fp
  BY <1>1
<1>3. c \in Counters /\ next \in Counters /\ c \in BeforeHeader /\ c # "file" /\ c # "od"
      /\ next \notin {"phase2", "derive", "done"} \cup WithHelper
  BY DEF Counters, BeforeHeader, WithHelper
<1>4. c # "libc" /\ next \notin Before /\ next # "musl"
  BY DEF Before
<1> QED BY <1>2, <1>3, <1>4, AskedOnly

LEMMA AskOSKeeps ==
  ASSUME IInv, AskOS
  PROVE  IInv'
<1> DEFINE C == {"busybox", "model", "glibc", "meminfo", "df", "mounts", "uptime", "tools"}
           N == {"model", "glibc", "musl", "meminfo", "df", "mounts", "uptime", "tools", "endianness"}
<1>1. \E c \in C, next \in N : /\ \E a : Asked(c, next, a) /\ UNCHANGED fp
                               /\ next = "musl" => fp.libc = "musl"
  <2>1. CASE Ask("busybox", "model", Keep)
    BY <2>1 DEF Ask, Asked, Keep
  <2>2. CASE Ask("model", "glibc", Keep)
    BY <2>2 DEF Ask, Asked, Keep
  <2>3. CASE Ask("glibc", IF fp.libc = "musl" THEN "musl" ELSE "meminfo", Keep)
    <3>1. CASE fp.libc = "musl"
      BY <2>3, <3>1 DEF Ask, Asked, Keep
    <3>2. CASE fp.libc # "musl"
      BY <2>3, <3>2 DEF Ask, Asked, Keep
    <3> QED BY <3>1, <3>2
  <2>4. CASE Ask("meminfo", "df", Keep)
    BY <2>4 DEF Ask, Asked, Keep
  <2>5. CASE Ask("df", "mounts", Keep)
    BY <2>5 DEF Ask, Asked, Keep
  <2>6. CASE Ask("mounts", "uptime", Keep)
    BY <2>6 DEF Ask, Asked, Keep
  <2>7. CASE Ask("uptime", "tools", Keep)
    BY <2>7 DEF Ask, Asked, Keep
  <2>8. CASE Ask("tools", "endianness", Keep)
    BY <2>8 DEF Ask, Asked, Keep
  <2> QED BY <2>1, <2>2, <2>3, <2>4, <2>5, <2>6, <2>7, <2>8 DEF AskOS
<1>2. PICK c \in C, next \in N : /\ \E a : Asked(c, next, a) /\ UNCHANGED fp
                                 /\ next = "musl" => fp.libc = "musl"
  BY <1>1
<1>3. c \in Counters /\ next \in Counters /\ next \notin BeforeHeader /\ c # "file" /\ c # "od"
      /\ next \notin {"phase2", "derive", "done"} \cup WithHelper
  BY DEF Counters, BeforeHeader, WithHelper
<1>4. c # "libc" /\ next \notin Before
  BY DEF Before
<1>5. PICK a : Asked(c, next, a) /\ UNCHANGED fp
  BY <1>2
<1>6. next = "musl" => fp.libc = "musl"
  BY <1>2
<1> HIDE DEF C, N
<1> QED BY <1>3, <1>4, <1>5, <1>6, AskedOnly

\* A reply that names the loader of musl is the reply to the command that looks for
\* it, the last text of the session: nothing but its end is left to be read.
LEMMA LibcPlace ==
  ASSUME dev \in Devices, SessionInv, StreamTold("loader"), NEW s \in Starts("libc"),
         Has(Whole("libc", s).text, "ld-musl")
  PROVE  Len(Whole("libc", s).rest) = 0 /\ Told("version", Whole("libc", s).text)
<1> DEFINE reply == Echo("libc") \o Output("libc")
           all == All("libc")
           text == From(all[s[1]], s[2])
           rest == From(all, s[1])
<1>1. Whole("libc", s).text = text /\ Whole("libc", s).rest = rest
  BY DEF Whole, All
<1>2. reply \in Texts /\ Told("any", reply) /\ Told("version", reply)
  BY ReplyTexts
<1>3. Tells("any", "libc")
  BY <1>2 DEF Tells, StreamTold, Told
<1>4. /\ all \in Seq(Texts) /\ Len(stream) \in Nat /\ Len(all) = Len(stream) + 1
      /\ all[Len(all)] = reply
  BY <1>3, AllTold
<1>5. s[1] \in 1..Len(all) /\ s[2] \in 0..Len(all[s[1]])
  BY <1>3, StartFacts
<1> HIDE DEF reply
<1>6. all[s[1]] \in Texts
  BY <1>4, <1>5
<1>7. s[1] = Len(all)
  <2>1. SUFFICES ASSUME s[1] # Len(all) PROVE FALSE
    OBVIOUS
  <2>2. stream \in Seq(Texts) /\ all = Append(stream, reply)
    BY DEF SessionInv, All, reply
  <2>3. s[1] \in 1..Len(stream)
    <3> HIDE DEF all
    <3> QED BY <2>1, <1>4, <1>5
  <2>4. all[s[1]] = stream[s[1]]
    <3>1. \A i \in 1..Len(stream) : Append(stream, reply)[i] = stream[i]
      BY <1>2, <2>2, AppendProperties
    <3> QED BY <2>2, <2>3, <3>1
  <2>5. Told("loader", all[s[1]])
    BY <2>3, <2>4 DEF StreamTold
  <2>6. Told("loader", text)
    <3> HIDE DEF all
    <3> QED BY <1>5, <1>6, <2>5, EndTold
  <2> HIDE DEF text
  <2> QED BY <1>1, <2>6 DEF Told, Has
<1>8. Len(rest) = 0
  <2>1. s[1] \in 0..Len(all)
    BY <1>4, <1>5
  <2>2. Len(rest) = Len(all) - s[1]
    <3> HIDE DEF all
    <3> QED BY <1>4, <2>1, FromFacts
  <2>3. Len(all) \in Nat
    BY <1>4
  <2> HIDE DEF rest, all
  <2> QED BY <1>7, <2>2, <2>3
<1>9. Told("version", text)
  <2> HIDE DEF all
  <2> QED BY <1>2, <1>4, <1>5, <1>6, <1>7, EndTold
<1> QED BY <1>1, <1>8, <1>9

\* What is left behind an answer that names the loader of musl tells no version of
\* something else.
LEMMA LibcAnswer ==
  ASSUME dev \in Devices, SessionInv, StreamTold("loader"), NEW a \in Answers("libc"),
         Has(a.text, "ld-musl")
  PROVE  \A i \in 1..Len(a.rest) : Told("version", a.rest[i])
<1> DEFINE begun == IF TRUE \in Outlives THEN Starts("libc") \cup {<<1, 0>>} ELSE {}
           A == {Whole("libc", s) : s \in Starts("libc")}
           B == UNION {Interruptions("libc", s) : s \in Starts("libc")}
           C == {Unanswered("libc", s) : s \in begun}
<1>1. Answers("libc") = IF ~up THEN {Broken} ELSE {Broken} \cup A \cup B \cup C
  BY DEF Answers
<1>2. a = Broken \/ a \in A \/ a \in B \/ a \in C
  <2> HIDE DEF A, B, C
  <2> QED BY <1>1
<1>3. \A t : Len(t) = 0 => ~Has(t, "ld-musl")
  BY DEF Has
<1>4. a # Broken
  <2>1. Broken.text = <<>>
    BY DEF Broken
  <2>2. Len(Broken.text) = 0
    BY <2>1, EmptySeq
  <2> QED BY <1>3, <2>2
<1>5. a \notin C
  <2>1. SUFFICES ASSUME NEW s \in begun PROVE ~Has(Unanswered("libc", s).text, "ld-musl")
    <3> HIDE DEF begun
    <3> QED OBVIOUS
  <2>2. Unanswered("libc", s).text = <<>>
    BY DEF Unanswered
  <2>3. Len(Unanswered("libc", s).text) = 0
    BY <2>2, EmptySeq
  <2> QED BY <1>3, <2>3
<1>6. CASE a \in A
  <2>1. PICK s \in Starts("libc") : a = Whole("libc", s)
    BY <1>6
  <2>2. Len(a.rest) = 0
    BY <2>1, LibcPlace
  <2>3. 1..Len(a.rest) = {}
    BY <2>2
  <2> QED BY <2>3
<1>7. CASE a \in B
  <2>1. PICK s \in Starts("libc") : a \in Interruptions("libc", s)
    BY <1>7
  <2>2. PICK n \in 0..Len(Whole("libc", s).text), alive \in Outlives :
          a = Interrupted("libc", s, n, alive)
    BY <2>1 DEF Interruptions
  <2> DEFINE w == Whole("libc", s)
             left == From(w.text, n)
  <2>3. a = [text |-> SubSeq(w.text, 1, n), failed |-> TRUE, alive |-> alive, own |-> w.own,
             rest |-> IF alive THEN <<left>> \o w.rest ELSE <<>>]
    BY <2>2 DEF Interrupted
  <2>4. a.text = SubSeq(w.text, 1, n) /\ a.rest = IF alive THEN <<left>> \o w.rest ELSE <<>>
    BY <2>3
  <2>5. w.text \in Texts /\ w.rest \in Seq(Texts) /\ n \in 0..Len(w.text)
    <3>1. Tells("any", "libc")
      BY ReplyTexts DEF Tells, StreamTold, Told
    <3> QED BY <3>1, WholeIsAnswer DEF IsAnswer
  <2> HIDE DEF w
  <2>6. Has(w.text, "ld-musl")
    <3>1. PICK i \in 1..Len(a.text) : "ld-musl" \in a.text[i]
      BY DEF Has
    <3>2. /\ Len(SubSeq(w.text, 1, n)) = n /\ Len(w.text) \in Nat
          /\ \A j \in 1..n : SubSeq(w.text, 1, n)[j] = w.text[j]
      BY <2>5, BeginningWords
    <3>3. i \in 1..Len(w.text) /\ a.text[i] = w.text[i]
      BY <2>4, <2>5, <3>1, <3>2
    <3> QED BY <3>1, <3>3 DEF Has
  <2>7. Len(w.rest) = 0 /\ Told("version", w.text)
    BY <2>6, LibcPlace DEF w
  <2>8. left \in Texts /\ Told("version", left)
    BY <2>5, <2>7, EndTold
  <2>9. \A i \in 1..Len(w.rest) : Told("version", w.rest[i])
    <3>1. 1..Len(w.rest) = {}
      BY <2>7
    <3> QED BY <3>1
  <2> HIDE DEF left
  <2>10. CASE alive
    BY <2>4, <2>5, <2>8, <2>9, <2>10, FrontFacts
  <2>11. CASE ~alive
    <3>1. Len(a.rest) = 0
      BY <2>4, <2>11, EmptySeq
    <3>2. 1..Len(a.rest) = {}
      BY <3>1
    <3> QED BY <3>2
  <2> QED BY <2>10, <2>11
<1> QED BY <1>2, <1>4, <1>5, <1>6, <1>7

LEMMA AskLibcKeeps ==
  ASSUME IInv, AskLibc
  PROVE  IInv'
<1>1. PICK a : Asked("libc", "hisi", a) /\ fp' \in ParseLibc(a) /\ elf' = elf
  BY DEF AskLibc, Ask, Asked
<1>2. "libc" \in Counters /\ "hisi" \in Counters /\ "hisi" \in BeforeHeader
      /\ "hisi" \notin {"phase2", "derive", "done"} \cup WithHelper
      /\ "libc" \in BeforeHeader \ {"file"}
  BY DEF Counters, BeforeHeader, WithHelper
<1>3. /\ dev \in Devices /\ fp \in Fingerprints /\ SessionInv' /\ PhaseInv' /\ dev' = dev
      /\ ~shifted' => ~shifted /\ a.own
      /\ fp' \in Fingerprints => TypeOK'
      /\ IsAnswer("any", a, "libc")
  BY <1>1, <1>2, AskedKeeps
<1>4. /\ fp' \in Fingerprints
      /\ fp'.isa = fp.isa /\ fp'.bits = fp.bits /\ fp'.musl = fp.musl
      /\ fp'.libc = "musl" => fp.libc = "musl" \/ Has(a.text, "ld-musl")
      /\ \/ fp'.float = fp.float
         \/ fp'.float = "hard" /\ Has(a.text, "ld-musl-armhf")
         \/ fp'.float = "soft" /\ Has(a.text, "ld-musl-arm.")
  BY <1>1, <1>3, LibcFacts
<1>5. elf' = {}
  BY <1>1, <1>2 DEF Asked, IInv, PhaseInv
<1>6. ~shifted' => fp'.float = fp.float \/ (dev.isa = "arm" => fp'.float = dev.float)
  <2>1. SUFFICES ASSUME ~shifted', dev.isa = "arm" PROVE fp'.float = fp.float \/ fp'.float = dev.float
    OBVIOUS
  <2>2. \A i \in 1..Len(a.text) : WordTold("libc", a.text[i])
    BY <1>3, <2>1, OwnFacts
  <2>3. /\ Has(a.text, "ld-musl-armhf") => dev.float = "hard"
        /\ Has(a.text, "ld-musl-arm.") => dev.float # "hard"
    BY <2>1, <2>2 DEF Has, WordTold
  <2>4. dev.float \in {"hard", "soft"}
    BY <1>3, <2>1, DeviceFacts
  <2> QED BY <1>4, <2>3, <2>4
<1>7. FingerprintInv'
  BY <1>3, <1>4, <1>5, <1>6, FingerprintKept
<1>8. TellInv'
  <2>1. pc = "libc" /\ pc' = "hisi" /\ a \in Answers("libc") /\ stream' = a.rest /\ SessionInv
    BY <1>1 DEF Asked, Receive, IInv
  <2>2. fp.libc # "musl" /\ StreamTold("loader")
    BY <2>1 DEF IInv, TellInv, Before
  <2>3. fp'.libc = "musl" => StreamTold("version")'
    <3>1. SUFFICES ASSUME fp'.libc = "musl" PROVE StreamTold("version")'
      OBVIOUS
    <3>2. \A i \in 1..Len(a.rest) : Told("version", a.rest[i])
      BY <1>3, <1>4, <2>1, <2>2, <3>1, LibcAnswer
    <3> QED BY <1>3, <2>1, <3>2 DEF StreamTold, Told
  <2>4. MuslVersionIsMusls'
    BY <1>3, <1>4 DEF IInv, TellInv, MuslVersionIsMusls
  <2> QED BY <2>1, <2>3, <2>4 DEF TellInv, Before
<1> QED BY <1>3, <1>4, <1>7, <1>8 DEF IInv

LEMMA AskFileKeeps ==
  ASSUME IInv, AskFile
  PROVE  IInv'
<1>1. PICK a : Asked("file", "od", a) /\ fp' \in ParseFileOutput(a)
  BY DEF AskFile, Ask, Asked
<1>2. "file" \in Counters /\ "od" \in Counters /\ "od" \notin BeforeHeader
      /\ "od" \notin {"phase2", "derive", "done"} \cup WithHelper
      /\ "file" \in BeforeHeader
  BY DEF Counters, BeforeHeader, WithHelper
<1>3. /\ dev \in Devices /\ fp \in Fingerprints /\ SessionInv' /\ PhaseInv' /\ dev' = dev
      /\ ~shifted' => ~shifted /\ a.own
      /\ fp' \in Fingerprints => TypeOK'
      /\ IsAnswer("any", a, "file")
  BY <1>1, <1>2, AskedKeeps
<1>4. fp' \in Fingerprints /\ fp'.float = fp.float /\ fp'.libc = fp.libc /\ fp'.musl = fp.musl
  BY <1>1, <1>3, FileFacts
<1>5. elf = {} /\ elf' = IF "file" \in dev.tools /\ a.own /\ a.text = Output("file") THEN {"file"} ELSE {}
  BY <1>1, <1>2 DEF Asked, IInv, PhaseInv
<1>6. ~shifted' =>
        /\ \/ fp'.isa = fp.isa /\ fp'.bits \in {fp.bits, dev.bits}
           \/ fp'.isa = dev.isa /\ fp'.bits = dev.bits /\ fp'.endian = dev.endian
        /\ elf' = {} \/ (fp'.isa = dev.isa /\ fp'.bits = dev.bits /\ fp'.endian = dev.endian)
  <2>1. SUFFICES ASSUME ~shifted'
                 PROVE  /\ \/ fp'.isa = fp.isa /\ fp'.bits \in {fp.bits, dev.bits}
                           \/ fp'.isa = dev.isa /\ fp'.bits = dev.bits /\ fp'.endian = dev.endian
                        /\ elf' = {} \/ (fp'.isa = dev.isa /\ fp'.bits = dev.bits /\ fp'.endian = dev.endian)
    OBVIOUS
  <2>2. a.own
    BY <1>3, <2>1
  <2>3. /\ \/ fp'.isa = fp.isa /\ fp'.bits \in {fp.bits, dev.bits}
           \/ fp'.isa = dev.isa /\ fp'.bits = dev.bits /\ fp'.endian = dev.endian
        /\ "file" \in dev.tools /\ a.text = Output("file") =>
             fp'.isa = dev.isa /\ fp'.bits = dev.bits /\ fp'.endian = dev.endian
    BY <1>1, <1>3, <2>2, FileOwn
  <2> QED BY <1>5, <2>3
<1>7. dev.bits # 0 /\ (dev.isa = "arm" => dev.bits = 32)
  BY <1>3, DeviceWidth
<1>8. ~shifted' =>
        \/ fp'.isa = fp.isa /\ fp'.bits = fp.bits
        \/ fp'.bits # 0 /\ (dev.isa = "arm" /\ fp'.isa = "arm" => fp'.bits = 32)
  BY <1>6, <1>7
<1>9. FingerprintInv'
  BY <1>3, <1>4, <1>6, <1>8, FingerprintKept
<1>10. TellInv'
  BY <1>1, <1>2, <1>3, <1>4, AskedTells DEF Before
<1> QED BY <1>3, <1>4, <1>9, <1>10 DEF IInv

LEMMA AskODKeeps ==
  ASSUME IInv, AskOD
  PROVE  IInv'
<1>1. PICK a : Asked("od", "readelf", a) /\ fp' \in ParseODOutput(a)
  BY DEF AskOD, Ask, Asked
<1>2. "od" \in Counters /\ "readelf" \in Counters /\ "readelf" \notin BeforeHeader
      /\ "readelf" \notin {"phase2", "derive", "done"} \cup WithHelper
  BY DEF Counters, BeforeHeader, WithHelper
<1>3. /\ dev \in Devices /\ fp \in Fingerprints /\ SessionInv' /\ PhaseInv' /\ dev' = dev
      /\ ~shifted' => ~shifted /\ a.own
      /\ fp' \in Fingerprints => TypeOK'
      /\ IsAnswer("any", a, "od")
  BY <1>1, <1>2, AskedKeeps
<1>4. fp' \in Fingerprints /\ fp'.libc = fp.libc /\ fp'.musl = fp.musl
  BY <1>1, <1>3, ODFacts
<1>5. elf' = IF "od" \in dev.tools /\ a.own /\ a.text = Output("od") THEN elf \cup {"od"} ELSE elf
  BY <1>1 DEF Asked
<1>6. ASSUME ~shifted'
      PROVE  /\ \/ fp' = fp
                \/ /\ fp'.isa = dev.isa /\ fp'.bits = dev.bits /\ fp'.endian = dev.endian
                   /\ fp'.float = fp.float \/ (dev.isa = "arm" /\ fp'.float = dev.float)
             /\ elf' = elf \/ (fp'.isa = dev.isa /\ fp'.bits = dev.bits /\ fp'.endian = dev.endian)
  <2>1. a.own
    BY <1>3, <1>6
  <2>2. /\ \/ fp' = fp
           \/ /\ fp'.isa = dev.isa /\ fp'.bits = dev.bits /\ fp'.endian = dev.endian
              /\ fp'.float = fp.float \/ (dev.isa = "arm" /\ fp'.float = dev.float)
        /\ "od" \in dev.tools /\ a.text = Output("od") =>
             fp'.isa = dev.isa /\ fp'.bits = dev.bits /\ fp'.endian = dev.endian
    BY <1>1, <1>3, <2>1, ODOwn
  <2> QED BY <1>5, <2>2
<1>7. dev.bits # 0 /\ (dev.isa = "arm" => dev.bits = 32)
  BY <1>3, DeviceWidth
<1>8. ~shifted' =>
        /\ \/ fp'.isa = fp.isa /\ fp'.bits = fp.bits
           \/ fp'.bits # 0 /\ (dev.isa = "arm" /\ fp'.isa = "arm" => fp'.bits = 32)
        /\ fp'.float = fp.float \/ (dev.isa = "arm" => fp'.float = dev.float)
        /\ \/ elf' = elf /\ fp'.isa = fp.isa /\ fp'.bits = fp.bits /\ fp'.endian = fp.endian
           \/ fp'.isa = dev.isa /\ fp'.bits = dev.bits /\ fp'.endian = dev.endian
  <2>1. SUFFICES ASSUME ~shifted'
                 PROVE  /\ \/ fp'.isa = fp.isa /\ fp'.bits = fp.bits
                           \/ fp'.bits # 0 /\ (dev.isa = "arm" /\ fp'.isa = "arm" => fp'.bits = 32)
                        /\ fp'.float = fp.float \/ (dev.isa = "arm" => fp'.float = dev.float)
                        /\ \/ elf' = elf /\ fp'.isa = fp.isa /\ fp'.bits = fp.bits /\ fp'.endian = fp.endian
                           \/ fp'.isa = dev.isa /\ fp'.bits = dev.bits /\ fp'.endian = dev.endian
    OBVIOUS
  <2>2. CASE fp' = fp
    BY <1>6, <2>1, <2>2
  <2>3. CASE /\ fp'.isa = dev.isa /\ fp'.bits = dev.bits /\ fp'.endian = dev.endian
             /\ fp'.float = fp.float \/ (dev.isa = "arm" /\ fp'.float = dev.float)
    BY <1>7, <2>3
  <2> QED BY <1>6, <2>1, <2>2, <2>3
<1>9. FingerprintInv'
  BY <1>3, <1>8, FingerprintKept
<1>10. TellInv'
  BY <1>1, <1>2, <1>3, <1>4, AskedTells DEF Before
<1> QED BY <1>3, <1>4, <1>9, <1>10 DEF IInv

LEMMA AskReadelfKeeps ==
  ASSUME IInv, AskReadelf
  PROVE  IInv'
<1>1. PICK a : Asked("readelf", "procversion", a) /\ fp' \in ParseReadelfOutput(a) /\ elf' = elf
  BY DEF AskReadelf, Ask, Asked
<1>2. "readelf" \in Counters /\ "procversion" \in Counters /\ "procversion" \notin BeforeHeader
      /\ "procversion" \notin {"phase2", "derive", "done"} \cup WithHelper
  BY DEF Counters, BeforeHeader, WithHelper
<1>3. /\ dev \in Devices /\ fp \in Fingerprints /\ SessionInv' /\ PhaseInv' /\ dev' = dev
      /\ ~shifted' => ~shifted /\ a.own
      /\ fp' \in Fingerprints => TypeOK'
      /\ IsAnswer("any", a, "readelf")
  BY <1>1, <1>2, AskedKeeps
<1>4. /\ fp' \in Fingerprints
      /\ fp'.isa = fp.isa /\ fp'.bits = fp.bits /\ fp'.endian = fp.endian
      /\ fp'.libc = fp.libc /\ fp'.musl = fp.musl
      /\ fp'.float = IF Has(a.text, "VFP-registers") THEN "hard"
                     ELSE IF Has(a.text, "Tag_ABI_VFP_args") THEN "soft" ELSE fp.float
  BY <1>1, <1>3, ReadelfFacts
<1>5. ~shifted' => fp'.float = fp.float \/ (dev.isa = "arm" => fp'.float = dev.float)
  <2>1. SUFFICES ASSUME ~shifted', dev.isa = "arm" PROVE fp'.float = fp.float \/ fp'.float = dev.float
    OBVIOUS
  <2>2. \A i \in 1..Len(a.text) : WordTold("readelf", a.text[i])
    BY <1>3, <2>1, OwnFacts
  <2>3. /\ Has(a.text, "VFP-registers") => dev.float = "hard"
        /\ Has(a.text, "Tag_ABI_VFP_args") /\ dev.float = "hard" => Has(a.text, "VFP-registers")
    BY <2>2 DEF Has, WordTold
  <2>4. dev.float \in {"hard", "soft"}
    BY <1>3, <2>1, DeviceFacts
  <2> QED BY <1>4, <2>3, <2>4
<1>6. FingerprintInv'
  BY <1>1, <1>3, <1>4, <1>5, FingerprintKept
<1>7. TellInv'
  BY <1>1, <1>2, <1>3, <1>4, AskedTells DEF Before
<1> QED BY <1>3, <1>4, <1>6, <1>7 DEF IInv

LEMMA AskMuslVersionKeeps ==
  ASSUME IInv, AskMuslVersion
  PROVE  IInv'
<1>1. PICK a : Asked("musl", "meminfo", a) /\ fp' \in ParseMuslVersion(a) /\ elf' = elf
  BY DEF AskMuslVersion, Ask, Asked
<1>2. "musl" \in Counters /\ "meminfo" \in Counters /\ "meminfo" \notin BeforeHeader
      /\ "meminfo" \notin {"phase2", "derive", "done"} \cup WithHelper
  BY DEF Counters, BeforeHeader, WithHelper
<1>3. /\ dev \in Devices /\ fp \in Fingerprints /\ SessionInv' /\ PhaseInv' /\ dev' = dev
      /\ ~shifted' => ~shifted /\ a.own
      /\ fp' \in Fingerprints => TypeOK'
      /\ IsAnswer("any", a, "musl")
  BY <1>1, <1>2, AskedKeeps
<1>4. /\ fp' \in Fingerprints
      /\ fp'.isa = fp.isa /\ fp'.bits = fp.bits /\ fp'.endian = fp.endian /\ fp'.float = fp.float
      /\ fp'.libc = fp.libc
      /\ \/ fp'.musl = fp.musl
         \/ fp'.musl \in VersionNames /\ Has(a.text, "musl") /\ Has(a.text, fp'.musl)
  BY <1>1, <1>3, MuslFacts
<1>5. FingerprintInv'
  BY <1>1, <1>3, <1>4, FingerprintKept
<1>6. TellInv'
  <2>1. dev \in Devices /\ SessionInv /\ "musl" \notin {"uname", "version"}
    BY <1>3 DEF IInv
  <2>2. Tells("version", "musl")
    BY <1>1, <2>1, ReplyTexts DEF Tells, Asked, IInv, TellInv
  <2>3. IsAnswer("version", a, "musl")
    BY <1>1, <2>1, <2>2, AnswersAre DEF Asked
  <2>4. Told("version", a.text)
    BY <2>3 DEF IsAnswer
  <2>5. fp'.musl = fp.musl \/ ("musl" \in dev.libcs /\ fp'.musl = dev.musl)
    BY <1>4, <2>4 DEF Has, Told
  <2>6. "musl" # "libc" /\ "meminfo" \notin Before /\ "meminfo" # "musl"
    BY DEF Before
  <2> QED BY <1>1, <1>2, <1>4, <2>5, <2>6, AskedTells
<1> QED BY <1>3, <1>4, <1>5, <1>6 DEF IInv

\* A step that does not speak to the device.
LEMMA SessionKept ==
  ASSUME SessionInv, dev' = dev, UNCHANGED sessionVars
  PROVE  SessionInv'
<1>1. stream' = stream /\ up' = up /\ timeouts' = timeouts /\ shifted' = shifted
  BY DEF sessionVars
<1> QED BY <1>1 DEF SessionInv

LEMMA QuietTells ==
  ASSUME IInv, dev' = dev, stream' = stream \/ stream' = <<>>,
         fp'.libc = fp.libc, fp'.musl = fp.musl,
         pc' \in Before => pc \in Before, pc' = "musl" => pc = "musl"
  PROVE  TellInv'
<1>1. \A k : StreamTold(k) => StreamTold(k)'
  <2>1. CASE stream' = stream
    BY <2>1 DEF StreamTold, Told
  <2>2. CASE stream' = <<>>
    <3>1. Len(stream') = 0
      BY <2>2, EmptySeq
    <3>2. 1..Len(stream') = {}
      BY <3>1
    <3> QED BY <3>2 DEF StreamTold
  <2> QED BY <2>1, <2>2
<1>2. pc' \in Before => fp'.libc # "musl" /\ StreamTold("loader")'
  BY <1>1 DEF IInv, TellInv
<1>3. /\ fp'.libc = "musl" => StreamTold("version")'
      /\ pc' = "musl" => fp'.libc = "musl"
  BY <1>1 DEF IInv, TellInv
<1>4. MuslVersionIsMusls'
  BY DEF IInv, TellInv, MuslVersionIsMusls
<1> QED BY <1>2, <1>3, <1>4 DEF TellInv

LEMMA IInvFrom ==
  ASSUME IInv, dev' = dev, shifted' = shifted, SessionInv', PhaseInv', FingerprintInv',
         stream' = stream \/ stream' = <<>>,
         pc' \in Before => pc \in Before, pc' = "musl" => pc = "musl",
         fp' \in Fingerprints, fp'.libc = fp.libc, fp'.musl = fp.musl,
         timeT' \in {"", "32-bit", "64-bit"}, pc' \in Counters,
         helper' \in [file : {"absent", "partial", "whole"}, exec : BOOLEAN],
         others' \in 0..MaxOtherRuns, elf' \subseteq {"file", "od", "helper"}
  PROVE  IInv'
<1>1. dev' \in Devices
  BY TypeFacts DEF IInv
<1>2. TypeOK'
  BY <1>1 DEF TypeOK, Fingerprints, SessionInv, Counters
<1>3. TellInv'
  BY QuietTells
<1> QED BY <1>2, <1>3 DEF IInv

\* The machine /proc/version speaks of.
LEMMA BuildISA ==
  ASSUME NEW t, NEW none
  PROVE  FirstOf(t, <<"aarch64", "arm", "mips", "x86_64", "i686">>,
                 <<"aarch64", "arm", "mips", "x86_64", "x86">>, none) =
           IF Has(t, "aarch64") THEN "aarch64" ELSE IF Has(t, "arm") THEN "arm"
           ELSE IF Has(t, "mips") THEN "mips" ELSE IF Has(t, "x86_64") THEN "x86_64"
           ELSE IF Has(t, "i686") THEN "x86" ELSE none
BY FirstOfFive

\* The fallback is only taken when nothing has answered with the header, and a
\* machine it finds comes with its width.
LEMMA ParseProcVersionKeeps ==
  ASSUME IInv, ParseProcVersion
  PROVE  IInv'
<1> DEFINE isa == FirstOf(build, <<"aarch64", "arm", "mips", "x86_64", "i686">>,
                          <<"aarch64", "arm", "mips", "x86_64", "x86">>, "")
           width == IF isa = "" THEN fp.bits ELSE IF isa \in {"aarch64", "x86_64"} THEN 64 ELSE 32
<1>1. /\ pc = "procversion" /\ pc' = "busybox"
      /\ dev' = dev /\ timeT' = timeT /\ UNCHANGED sessionVars /\ shifted' = shifted
      /\ helper' = helper /\ others' = others /\ elf' = elf
      /\ stream' = stream /\ pc' \notin Before /\ pc' # "musl"
  BY DEF ParseProcVersion, helperVars, sessionVars, Before
<1>2. fp' = IF fp.isa # "" THEN fp ELSE [fp EXCEPT !.isa = isa, !.bits = width]
  BY DEF ParseProcVersion
<1>3. isa \in ISAs \cup {""}
  <2>1. isa = IF Has(build, "aarch64") THEN "aarch64" ELSE IF Has(build, "arm") THEN "arm"
              ELSE IF Has(build, "mips") THEN "mips" ELSE IF Has(build, "x86_64") THEN "x86_64"
              ELSE IF Has(build, "i686") THEN "x86" ELSE ""
    BY BuildISA
  <2> HIDE DEF isa
  <2> QED BY <2>1 DEF ISAs
<1>4. /\ fp \in Fingerprints /\ dev \in Devices /\ SessionInv
      /\ timeT \in {"", "32-bit", "64-bit"}
      /\ helper \in [file : {"absent", "partial", "whole"}, exec : BOOLEAN]
      /\ others \in 0..MaxOtherRuns /\ elf \subseteq {"file", "od", "helper"}
  BY TypeFacts DEF IInv
<1> HIDE DEF isa
<1>5. /\ isa = "" => width = fp.bits
      /\ isa # "" => width \in {32, 64} /\ width # 0 /\ (isa = "arm" => width = 32)
  <2>1. isa = "" => width = fp.bits
    OBVIOUS
  <2>2. CASE isa # "" /\ isa \in {"aarch64", "x86_64"}
    <3>1. width = 64 /\ isa # "arm"
      BY <2>2
    <3> HIDE DEF width
    <3>2. width \in {32, 64} /\ width # 0
      BY <3>1
    <3> QED BY <2>2, <3>1, <3>2
  <2>3. CASE isa # "" /\ isa \notin {"aarch64", "x86_64"}
    <3>1. width = 32
      BY <2>3
    <3> HIDE DEF width
    <3>2. width \in {32, 64} /\ width # 0
      BY <3>1
    <3> QED BY <2>3, <3>1, <3>2
  <2> HIDE DEF width
  <2> QED BY <2>1, <2>2, <2>3
<1> HIDE DEF width
<1>6. fp.bits \in {0, 32, 64}
  BY <1>4 DEF Fingerprints
<1>7. width \in {0, 32, 64}
  BY <1>5, <1>6
<1>8. CASE fp.isa # ""
  <2>1. fp' = fp
    BY <1>2, <1>8
  <2>2. FingerprintInv'
    BY <1>1, <2>1, FingerprintKept
  <2>3. SessionInv'
    BY <1>1, <1>4, SessionKept
  <2>4. PhaseInv'
    BY <1>1 DEF PhaseInv, BeforeHeader, WithHelper
  <2>5. pc' \in Counters
    BY <1>1 DEF Counters
  <2> QED BY <1>1, <1>4, <2>1, <2>2, <2>3, <2>4, <2>5, IInvFrom
<1>9. CASE fp.isa = ""
  <2>1. fp' = [fp EXCEPT !.isa = isa, !.bits = width]
    BY <1>2, <1>9
  <2>2. /\ fp' \in Fingerprints /\ fp'.isa = isa /\ fp'.bits = width
        /\ fp'.endian = fp.endian /\ fp'.float = fp.float /\ fp'.libc = fp.libc /\ fp'.musl = fp.musl
    BY <1>3, <1>4, <1>7, <2>1 DEF Fingerprints
  <2>3. ~shifted => elf = {}
    <3>1. dev.isa # ""
      BY <1>4, DeviceFacts DEF ISAs
    <3> QED BY <1>9, <3>1 DEF IInv, FingerprintInv
  <2>4. \/ fp'.isa = fp.isa /\ fp'.bits = fp.bits
        \/ fp'.bits # 0 /\ (dev.isa = "arm" /\ fp'.isa = "arm" => fp'.bits = 32)
    BY <1>5, <1>9, <2>2
  <2>5. FingerprintInv'
    BY <1>1, <2>2, <2>3, <2>4, FingerprintKept
  <2>6. SessionInv'
    BY <1>1, <1>4, SessionKept
  <2>7. PhaseInv'
    BY <1>1 DEF PhaseInv, BeforeHeader, WithHelper
  <2>8. pc' \in Counters
    BY <1>1 DEF Counters
  <2> QED BY <1>1, <1>4, <2>2, <2>5, <2>6, <2>7, <2>8, IInvFrom
<1> QED BY <1>8, <1>9

\* The default is for what the header has not told.
LEMMA EndPhase1Keeps ==
  ASSUME IInv, EndPhase1
  PROVE  IInv'
<1> DEFINE order == IF fp.endian # "" \/ fp.isa = "" THEN fp.endian
                    ELSE IF fp.isa = "mips" THEN "big" ELSE "little"
<1>1. /\ pc' = IF fp.isa = "" THEN "failed" ELSE "phase2"
      /\ dev' = dev /\ timeT' = timeT /\ timeouts' = timeouts /\ shifted' = shifted
      /\ stream' = <<>> /\ up' = FALSE
      /\ helper' = helper /\ others' = others /\ elf' = elf
      /\ pc' \notin Before /\ pc' # "musl"
  BY DEF EndPhase1, helperVars, Before
<1>2. fp' = [fp EXCEPT !.endian = order]
  BY DEF EndPhase1
<1>3. /\ fp \in Fingerprints /\ dev \in Devices /\ SessionInv
      /\ timeT \in {"", "32-bit", "64-bit"}
      /\ helper \in [file : {"absent", "partial", "whole"}, exec : BOOLEAN]
      /\ others \in 0..MaxOtherRuns /\ elf \subseteq {"file", "od", "helper"}
      /\ timeouts \in 0..MaxTimeouts
  BY TypeFacts DEF IInv
<1>4. order \in {"", "little", "big"} /\ (fp.endian # "" => order = fp.endian)
  BY <1>3 DEF Fingerprints
<1> HIDE DEF order
<1>5. /\ fp' \in Fingerprints /\ fp'.isa = fp.isa /\ fp'.bits = fp.bits /\ fp'.endian = order
      /\ fp'.float = fp.float /\ fp'.libc = fp.libc /\ fp'.musl = fp.musl
  BY <1>2, <1>3, <1>4 DEF Fingerprints
<1>6. ~shifted /\ elf # {} => fp'.endian = fp.endian
  <2>1. dev.endian # ""
    BY <1>3, DeviceFacts
  <2> QED BY <1>4, <1>5, <2>1 DEF IInv, FingerprintInv
<1>7. FingerprintInv'
  BY <1>1, <1>5, <1>6, FingerprintKept
<1>8. SessionInv'
  <2>1. <<>> \in Seq(Texts) /\ Len(<<>>) = 0
    BY EmptySeq
  <2>2. stream' \in Seq(Texts) /\ Len(stream') = 0
    BY <1>1, <2>1
  <2>3. timeouts \in 0..MaxTimeouts => 0 <= timeouts
    BY DetectAssumption
  <2>4. Len(stream') <= timeouts' /\ timeouts' \in 0..MaxTimeouts
    BY <1>1, <1>3, <2>2, <2>3
  <2>5. up' \in BOOLEAN /\ shifted' \in BOOLEAN
    BY <1>1, <1>3 DEF SessionInv
  <2> QED BY <2>2, <2>4, <2>5 DEF SessionInv
<1>9. PhaseInv'
  BY <1>1, <1>5 DEF PhaseInv, BeforeHeader, WithHelper
<1>10. pc' \in Counters
  BY <1>1 DEF Counters
<1> QED BY <1>1, <1>3, <1>5, <1>7, <1>8, <1>9, <1>10, IInvFrom

\* A step that leaves the fingerprint and the session as they are.
LEMMA QuietKeeps ==
  ASSUME IInv, UNCHANGED <<dev, fp, sessionVars, elf>>, PhaseInv',
         pc' \in Before => pc \in Before, pc' = "musl" => pc = "musl",
         timeT' \in {"", "32-bit", "64-bit"}, pc' \in Counters,
         helper' \in [file : {"absent", "partial", "whole"}, exec : BOOLEAN],
         others' \in 0..MaxOtherRuns
  PROVE  IInv'
<1>1. /\ dev' = dev /\ fp' = fp /\ elf' = elf /\ UNCHANGED sessionVars /\ shifted' = shifted
      /\ stream' = stream
  BY DEF sessionVars
<1>2. fp \in Fingerprints /\ SessionInv /\ elf \subseteq {"file", "od", "helper"}
  BY TypeFacts DEF IInv
<1>3. SessionInv' /\ FingerprintInv'
  BY <1>1, <1>2, SessionKept, FingerprintKept
<1> QED BY <1>1, <1>2, <1>3, IInvFrom

LEMMA HelperTypes ==
  ASSUME IInv
  PROVE  /\ helper \in [file : {"absent", "partial", "whole"}, exec : BOOLEAN]
         /\ others \in 0..MaxOtherRuns /\ timeT \in {"", "32-bit", "64-bit"}
         /\ NoHelper \in [file : {"absent", "partial", "whole"}, exec : BOOLEAN]
BY TypeFacts DEF IInv, NoHelper

LEMMA DialKeeps ==
  ASSUME IInv, Dial
  PROVE  IInv'
<1>1. /\ pc = "dial" /\ pc' \in {"uname", "failed"}
      /\ UNCHANGED <<dev, fp, sessionVars, elf>> /\ timeT' = timeT
      /\ helper' = helper /\ others' = others
  BY DEF Dial, fpVars, helperVars
<1>2. PhaseInv'
  <2>1. elf = {} /\ elf' = elf
    BY <1>1 DEF IInv, PhaseInv, BeforeHeader
  <2> QED BY <1>1, <2>1 DEF PhaseInv, WithHelper
<1>3. pc' \in Counters /\ pc \in Before /\ pc' # "musl"
  BY <1>1 DEF Counters, Before
<1> QED BY <1>1, <1>2, <1>3, HelperTypes, QuietKeeps

\* Phase 2 is only needed by an ARM device whose float ABI is not known: a
\* machine always comes with its width.
LEMMA Phase2Keeps ==
  ASSUME IInv, Phase2
  PROVE  IInv'
<1>1. /\ pc = "phase2" /\ (pc' = "derive" \/ (needsPhase2 /\ pc' = "upload"))
      /\ UNCHANGED <<dev, fp, sessionVars, elf>> /\ timeT' = timeT
      /\ helper' = helper /\ others' = others /\ shifted' = shifted /\ fp' = fp
  BY DEF Phase2, fpVars, helperVars, sessionVars
<1>2. ~shifted => fp.isa # ""
  BY <1>1 DEF IInv, PhaseInv
<1>3. ~shifted /\ needsPhase2 => fp.isa = "arm" /\ fp.float = ""
  BY <1>2 DEF IInv, FingerprintInv, needsPhase2
<1>4. PhaseInv'
  BY <1>1, <1>2, <1>3 DEF PhaseInv, BeforeHeader, WithHelper
<1>5. pc' \in Counters /\ pc' \notin Before /\ pc' # "musl"
  BY <1>1 DEF Counters, Before
<1> QED BY <1>1, <1>4, <1>5, HelperTypes, QuietKeeps

\* A step of phase 2 that only changes the helper.
LEMMA HelperStepKeeps ==
  ASSUME IInv, UNCHANGED <<dev, fp, timeT, sessionVars, elf>>, pc \in WithHelper,
         pc' \in WithHelper \cup {"derive"},
         helper' \in [file : {"absent", "partial", "whole"}, exec : BOOLEAN],
         others' \in 0..MaxOtherRuns
  PROVE  IInv'
<1>1. UNCHANGED <<dev, fp, sessionVars, elf>> /\ timeT' = timeT /\ shifted' = shifted /\ fp' = fp
  BY DEF sessionVars
<1>2. PhaseInv'
  <2>1. ~shifted => fp.isa = "arm" /\ fp.float = ""
    BY DEF IInv, PhaseInv
  <2> QED BY <1>1, <2>1 DEF PhaseInv, BeforeHeader, WithHelper
<1>3. pc' \in Counters /\ pc' \notin Before /\ pc' # "musl"
  BY DEF Counters, WithHelper, Before
<1> QED BY <1>1, <1>2, <1>3, HelperTypes, QuietKeeps

LEMMA UploadHelperKeeps ==
  ASSUME IInv, UploadHelper
  PROVE  IInv'
<1>1. /\ UNCHANGED <<dev, fp, timeT, sessionVars, elf>> /\ others' = others
      /\ pc \in WithHelper /\ pc' \in WithHelper \cup {"derive"}
  BY DEF UploadHelper, fpVars, WithHelper
<1>2. \/ helper' = helper
      \/ \E f \in {"partial", "whole"} : helper' = [helper EXCEPT !.file = f]
  BY DEF UploadHelper
<1>3. helper' \in [file : {"absent", "partial", "whole"}, exec : BOOLEAN]
  BY <1>2, HelperTypes
<1> QED BY <1>1, <1>3, HelperTypes, HelperStepKeeps

LEMMA ChmodHelperKeeps ==
  ASSUME IInv, ChmodHelper
  PROVE  IInv'
<1> DEFINE x == helper.exec \/ helper.file # "absent"
<1>1. /\ UNCHANGED <<dev, fp, timeT, sessionVars, elf>> /\ others' = others
      /\ pc \in WithHelper /\ pc' \in WithHelper \cup {"derive"}
  BY DEF ChmodHelper, fpVars, WithHelper
<1>2. helper' = helper \/ helper' = [helper EXCEPT !.exec = x]
  BY DEF ChmodHelper
<1>3. x \in BOOLEAN
  OBVIOUS
<1> HIDE DEF x
<1>4. helper' \in [file : {"absent", "partial", "whole"}, exec : BOOLEAN]
  BY <1>2, <1>3, HelperTypes
<1> QED BY <1>1, <1>4, HelperTypes, HelperStepKeeps

LEMMA OtherRunKeeps ==
  ASSUME IInv, OtherRun
  PROVE  IInv'
<1>1. /\ UNCHANGED <<dev, fp, timeT, sessionVars, elf>>
      /\ pc \in WithHelper /\ pc' \in WithHelper \cup {"derive"}
      /\ helper' \in [file : {"absent", "partial", "whole"}, exec : BOOLEAN]
  BY DEF OtherRun, fpVars, WithHelper
<1>2. others' \in 0..MaxOtherRuns
  <2>1. others < MaxOtherRuns /\ others' = others + 1
    BY DEF OtherRun
  <2>2. others \in 0..MaxOtherRuns
    BY HelperTypes
  <2>3. MaxOtherRuns \in Nat
    BY DetectAssumption
  <2> HIDE DetectAssumption
  <2> QED BY <2>1, <2>2, <2>3
<1> QED BY <1>1, <1>2, HelperStepKeeps

\* The helper that was chosen for ARM only runs on a kernel for ARM programs and
\* on a device of little endian, where it knows the machine of the header.
LEMMA HelperPrints ==
  ASSUME fp.isa = "arm", Runs(HelperFor(fp.isa, fp.endian, fp.libc))
  PROVE  ("arm" \in dev.machine \/ dev.isa = "arm") /\ dev.endian = "little"
<1>1. HelperFor(fp.isa, fp.endian, fp.libc).isa = "arm"
      /\ HelperFor(fp.isa, fp.endian, fp.libc).endian = "little"
  BY DEF HelperFor
<1> QED BY <1>1 DEF Runs

\* What is parsed is typed whatever the device is.
LEMMA HelperParsed ==
  ASSUME dev \in Devices, fp \in Fingerprints
  PROVE  LET f == ParseHelperOutput({HelperOutput})
         IN /\ f \in Fingerprints /\ f.libc = fp.libc /\ f.musl = fp.musl
            /\ f.bits = dev.bits /\ f.endian = dev.endian
            /\ dev.endian = "little" => f.isa = dev.isa
            /\ f.float = fp.float \/ (dev.isa = "arm" /\ f.float = dev.float)
<1> DEFINE h == HelperOutput
           float == IF dev.endian = "little" /\ dev.isa = "arm" /\ dev.flags THEN dev.float ELSE ""
           machine == IF dev.endian = "little" THEN dev.isa ELSE "unknown"
           isa == IF machine \in ISAs THEN machine ELSE ""
           abi == IF float = "" THEN fp.float ELSE float
           f == ParseHelperOutput({h})
<1>1. (CHOOSE x \in {h} : TRUE) = h
  OBVIOUS
<1>2. h = [class |-> dev.bits, endian |-> dev.endian, machine |-> machine, float |-> float]
  BY DEF HelperOutput
<1>3. f = [fp EXCEPT !.bits = h.class, !.endian = h.endian,
                     !.isa = IF h.machine \in ISAs THEN h.machine ELSE "",
                     !.float = IF h.float = "" THEN @ ELSE h.float]
  <2> HIDE DEF h
  <2> QED BY <1>1 DEF ParseHelperOutput
<1>4. h.class = dev.bits /\ h.endian = dev.endian /\ h.machine = machine /\ h.float = float
  BY <1>2
<1> HIDE DEF h, machine, float
<1>5. f = [fp EXCEPT !.bits = dev.bits, !.endian = dev.endian, !.isa = isa, !.float = abi]
  BY <1>3, <1>4
<1>6. dev.isa \in ISAs /\ dev.bits \in {32, 64} /\ dev.endian \in {"little", "big"}
      /\ dev.float \in {"hard", "soft", ""}
  BY DeviceFacts
<1>7. isa \in ISAs \cup {""} /\ (dev.endian = "little" => isa = dev.isa)
  BY <1>6 DEF machine
<1>8. abi = fp.float \/ (dev.isa = "arm" /\ abi = dev.float)
  BY DEF float
<1>9. abi \in {"", "hard", "soft"}
  BY <1>6, <1>8 DEF Fingerprints
<1> HIDE DEF isa, abi, f
<1>10. /\ f \in Fingerprints /\ f.libc = fp.libc /\ f.musl = fp.musl /\ f.bits = dev.bits /\ f.endian = dev.endian
       /\ f.isa = isa /\ f.float = abi
  BY <1>5, <1>6, <1>7, <1>9 DEF Fingerprints
<1>11. f = ParseHelperOutput({HelperOutput})
  BY DEF f, h
<1> QED BY <1>7, <1>8, <1>10, <1>11

\* What RunHelper does to the fingerprint, and to what is known of its sources.
LEMMA RunHelperIs ==
  ASSUME IInv, RunHelper
  PROVE  \/ fp' = fp /\ elf' = elf
         \/ /\ Runs(HelperFor(fp.isa, fp.endian, fp.libc))
            /\ fp' = ParseHelperOutput({HelperOutput}) /\ elf' = elf \cup {"helper"}
<1> DEFINE ran == helper = [file |-> "whole", exec |-> TRUE]
                  /\ Runs(HelperFor(fp.isa, fp.endian, fp.libc))
           printed == IF ran THEN {HelperOutput} ELSE {}
<1>1. \/ fp' = ParseHelperOutput(printed) /\ elf' = IF printed = {} THEN elf ELSE elf \cup {"helper"}
      \/ fp' = fp /\ elf' = elf
  BY DEF RunHelper
<1>2. CASE ran
  <2>1. printed = {HelperOutput} /\ printed # {}
    BY <1>2
  <2>2. Runs(HelperFor(fp.isa, fp.endian, fp.libc))
    BY <1>2
  <2> HIDE DEF ran, printed
  <2> QED BY <1>1, <2>1, <2>2
<1>3. CASE ~ran
  <2>1. printed = {}
    BY <1>3
  <2>2. ParseHelperOutput(printed) = fp
    BY <2>1 DEF ParseHelperOutput
  <2> HIDE DEF ran, printed
  <2> QED BY <1>1, <2>1, <2>2
<1> QED BY <1>2, <1>3

LEMMA RunHelperKeeps ==
  ASSUME IInv, RunHelper
  PROVE  IInv'
<1>1. /\ pc = "run" /\ pc' = "derive"
      /\ dev' = dev /\ timeT' = timeT /\ UNCHANGED sessionVars /\ shifted' = shifted
      /\ others' = others /\ helper' \in {helper, NoHelper} /\ stream' = stream
  BY DEF RunHelper, sessionVars
<1>2. /\ fp \in Fingerprints /\ dev \in Devices /\ SessionInv
      /\ elf \subseteq {"file", "od", "helper"}
  BY TypeFacts DEF IInv
<1>3. helper' \in [file : {"absent", "partial", "whole"}, exec : BOOLEAN]
  BY <1>1, HelperTypes
<1>4. SessionInv'
  BY <1>1, <1>2, SessionKept
<1>5. ~shifted => fp.isa = "arm"
  BY <1>1 DEF IInv, PhaseInv, WithHelper
<1>6. pc' \in Counters /\ pc' \notin Before /\ pc' # "musl"
  BY <1>1 DEF Counters, Before
<1>7. CASE fp' = fp /\ elf' = elf
  <2>1. FingerprintInv'
    BY <1>1, <1>7, FingerprintKept
  <2>2. PhaseInv'
    BY <1>1, <1>5, <1>7 DEF PhaseInv, BeforeHeader, WithHelper
  <2> QED BY <1>1, <1>2, <1>3, <1>4, <1>6, <1>7, <2>1, <2>2, HelperTypes, IInvFrom
<1>8. CASE /\ Runs(HelperFor(fp.isa, fp.endian, fp.libc))
           /\ fp' = ParseHelperOutput({HelperOutput}) /\ elf' = elf \cup {"helper"}
  <2>1. /\ fp' \in Fingerprints /\ fp'.libc = fp.libc /\ fp'.musl = fp.musl
        /\ fp'.bits = dev.bits /\ fp'.endian = dev.endian
        /\ dev.endian = "little" => fp'.isa = dev.isa
        /\ fp'.float = fp.float \/ (dev.isa = "arm" /\ fp'.float = dev.float)
    BY <1>2, <1>8, HelperParsed
  <2>2. ~shifted => fp'.isa = dev.isa
    BY <1>5, <1>8, <2>1, HelperPrints
  <2>3. dev.bits # 0 /\ (dev.isa = "arm" => dev.bits = 32)
    BY <1>2, DeviceWidth
  <2>4. FingerprintInv'
    BY <1>1, <2>1, <2>2, <2>3, FingerprintKept
  <2>5. PhaseInv'
    <3>1. dev.isa # ""
      BY <1>2, DeviceFacts DEF ISAs
    <3> QED BY <1>1, <2>2, <3>1 DEF PhaseInv, BeforeHeader, WithHelper
  <2>6. elf' \subseteq {"file", "od", "helper"}
    BY <1>2, <1>8
  <2> QED BY <1>1, <1>2, <1>3, <1>4, <1>6, <2>1, <2>4, <2>5, <2>6, HelperTypes, IInvFrom
<1> QED BY <1>7, <1>8, RunHelperIs

-----------------------------------------------------------------------------
(* The width of time_t *)

HasTime64(v) == compareVersions(v, <<1, 2, 0>>) >= 0

\* Two versions of at most three components are compared component by component.
LEMMA CompareUpToThree ==
  ASSUME NEW v \in Seq(Nat), Len(v) <= 3
  PROVE  HasTime64(v) <=>
           \/ Component(v, 1) > 1
           \/ Component(v, 1) = 1 /\ Component(v, 2) >= 2
<1> DEFINE b == <<1, 2, 0>>
           n == IF Len(v) > Len(b) THEN Len(v) ELSE Len(b)
           D == {i \in 1..n : Component(v, i) # Component(b, i)}
           m == CHOOSE j \in D : \A k \in D : j <= k
           c == compareVersions(v, b)
<1>1. Len(b) = 3 /\ b[1] = 1 /\ b[2] = 2 /\ b[3] = 0
  OBVIOUS
<1>2. n = 3
  <2> HIDE DEF b
  <2> QED BY <1>1
<1>3. Component(b, 1) = 1 /\ Component(b, 2) = 2 /\ Component(b, 3) = 0
  <2> HIDE DEF b
  <2> QED BY <1>1 DEF Component
<1>4. /\ Component(v, 1) \in Nat /\ Component(v, 2) \in Nat /\ Component(v, 3) \in Nat
  <2>1. \A i \in {1, 2, 3} : i <= Len(v) => v[i] \in Nat
    OBVIOUS
  <2> QED BY <2>1 DEF Component
<1>5. c = IF D = {} THEN 0 ELSE IF Component(v, m) < Component(b, m) THEN -1 ELSE 1
  BY DEF compareVersions
<1>0. HasTime64(v) <=> c >= 0
  BY DEF HasTime64
<1> HIDE DEF b, n, c
<1>6. D = {i \in 1..3 : Component(v, i) # Component(b, i)}
  BY <1>2
<1>7. D \subseteq {1, 2, 3}
       /\ (1 \in D <=> Component(v, 1) # 1)
       /\ (2 \in D <=> Component(v, 2) # 2)
       /\ (3 \in D <=> Component(v, 3) # 0)
  <2>1. 1..3 = {1, 2, 3}
    OBVIOUS
  <2> QED BY <1>3, <1>6, <2>1
<1> DEFINE P(j) == j \in D /\ \A k \in D : j <= k
<1> HIDE DEF D
<1>8. \A j : P(j) => m = j
  <2>1. SUFFICES ASSUME NEW j, P(j) PROVE m = j
    OBVIOUS
  <2>2. P(m)
    BY <2>1
  <2> HIDE DEF m
  <2>3. j \in {1, 2, 3} /\ m \in {1, 2, 3} /\ j <= m /\ m <= j
    BY <1>7, <2>1, <2>2
  <2> HIDE DEF P
  <2> QED BY <2>3
<1>9. CASE 1 \in D
  <2>1. P(1)
    BY <1>7, <1>9
  <2>2. m = 1
    BY <1>8, <2>1
  <2> HIDE DEF m
  <2>3. c = IF Component(v, 1) < 1 THEN -1 ELSE 1
    BY <1>3, <1>5, <1>9, <2>2
  <2>4. Component(v, 1) # 1
    BY <1>7, <1>9
  <2> QED BY <1>0, <1>4, <2>3, <2>4
<1>10. CASE 1 \notin D /\ 2 \in D
  <2>1. P(2)
    BY <1>7, <1>10
  <2>2. m = 2
    BY <1>8, <2>1
  <2> HIDE DEF m
  <2>3. c = IF Component(v, 2) < 2 THEN -1 ELSE 1
    BY <1>3, <1>5, <1>10, <2>2
  <2>4. Component(v, 1) = 1 /\ Component(v, 2) # 2
    BY <1>7, <1>10
  <2> QED BY <1>0, <1>4, <2>3, <2>4
<1>11. CASE 1 \notin D /\ 2 \notin D /\ 3 \in D
  <2>1. P(3)
    BY <1>7, <1>11
  <2>2. m = 3
    BY <1>8, <2>1
  <2> HIDE DEF m
  <2>3. c = IF Component(v, 3) < 0 THEN -1 ELSE 1
    BY <1>3, <1>5, <1>11, <2>2
  <2>4. Component(v, 1) = 1 /\ Component(v, 2) = 2
    BY <1>7, <1>11
  <2> QED BY <1>0, <1>4, <2>3, <2>4
<1>12. CASE 1 \notin D /\ 2 \notin D /\ 3 \notin D
  <2>1. D = {}
    BY <1>7, <1>12
  <2>2. c = 0
    BY <1>5, <2>1
  <2>3. Component(v, 1) = 1 /\ Component(v, 2) = 2
    BY <1>7, <1>12
  <2> QED BY <1>0, <2>2, <2>3
<1> QED BY <1>9, <1>10, <1>11, <1>12

\* 1.2 and 1.2.0 are the same version, and 24 is no more than 2 where it stands.
LEMMA MuslTime64 ==
  ASSUME NEW v \in MuslVersions
  PROVE  muslHasTime64(v) <=> v \in {"1.2", "1.2.0", "1.2.3"}
<1>1. /\ Versions["1.1.24"] = <<1, 1, 24>> /\ Versions["1.2"] = <<1, 2>>
      /\ Versions["1.2.0"] = <<1, 2, 0>> /\ Versions["1.2.3"] = <<1, 2, 3>>
  BY DEF Versions, MuslVersions
<1>6. muslHasTime64(v) <=> HasTime64(Versions[v])
  BY DEF muslHasTime64, HasTime64
<1>2. CASE v = "1.1.24"
  <2> DEFINE w == <<1, 1, 24>>
  <2>1. w \in Seq(Nat) /\ Len(w) = 3 /\ w[1] = 1 /\ w[2] = 1
    OBVIOUS
  <2> HIDE DEF w
  <2>2. Component(w, 1) = 1 /\ Component(w, 2) = 1 /\ Len(w) <= 3
    BY <2>1 DEF Component
  <2>4. ~(Component(w, 1) > 1 \/ (Component(w, 1) = 1 /\ Component(w, 2) >= 2))
    BY <2>2
  <2>3. ~HasTime64(w)
    BY <2>1, <2>2, <2>4, CompareUpToThree, Zenon
  <2> QED BY <1>1, <1>2, <1>6, <2>3 DEF w
<1>3. CASE v = "1.2"
  <2> DEFINE w == <<1, 2>>
  <2>1. w \in Seq(Nat) /\ Len(w) = 2 /\ w[1] = 1 /\ w[2] = 2
    OBVIOUS
  <2> HIDE DEF w
  <2>2. Component(w, 1) = 1 /\ Component(w, 2) = 2 /\ Len(w) <= 3
    BY <2>1 DEF Component
  <2>4. Component(w, 1) = 1 /\ Component(w, 2) >= 2
    BY <2>2
  <2>3. HasTime64(w)
    BY <2>1, <2>2, <2>4, CompareUpToThree, Zenon
  <2> QED BY <1>1, <1>3, <1>6, <2>3 DEF w
<1>4. CASE v = "1.2.0"
  <2> DEFINE w == <<1, 2, 0>>
  <2>1. w \in Seq(Nat) /\ Len(w) = 3 /\ w[1] = 1 /\ w[2] = 2
    OBVIOUS
  <2> HIDE DEF w
  <2>2. Component(w, 1) = 1 /\ Component(w, 2) = 2 /\ Len(w) <= 3
    BY <2>1 DEF Component
  <2>4. Component(w, 1) = 1 /\ Component(w, 2) >= 2
    BY <2>2
  <2>3. HasTime64(w)
    BY <2>1, <2>2, <2>4, CompareUpToThree, Zenon
  <2> QED BY <1>1, <1>4, <1>6, <2>3 DEF w
<1>5. CASE v = "1.2.3"
  <2> DEFINE w == <<1, 2, 3>>
  <2>1. w \in Seq(Nat) /\ Len(w) = 3 /\ w[1] = 1 /\ w[2] = 2
    OBVIOUS
  <2> HIDE DEF w
  <2>2. Component(w, 1) = 1 /\ Component(w, 2) = 2 /\ Len(w) <= 3
    BY <2>1 DEF Component
  <2>4. Component(w, 1) = 1 /\ Component(w, 2) >= 2
    BY <2>2
  <2>3. HasTime64(w)
    BY <2>1, <2>2, <2>4, CompareUpToThree, Zenon
  <2> QED BY <1>1, <1>5, <1>6, <2>3 DEF w
<1> QED BY <1>2, <1>3, <1>4, <1>5 DEF MuslVersions

\* A width is only stated when the header's width is known and the version of
\* musl, if it decides, is the device's.
LEMMA DeriveTimeTKeeps ==
  ASSUME IInv, DeriveTimeT
  PROVE  IInv'
<1>1. /\ pc = "derive" /\ pc' = "done"
      /\ UNCHANGED <<dev, fp, sessionVars, elf>> /\ shifted' = shifted /\ fp' = fp
      /\ dev' = dev /\ elf' = elf
      /\ helper' = helper /\ others' = others
  BY DEF DeriveTimeT, helperVars, sessionVars
<1>2. timeT' = IF fp.bits = 64 THEN "64-bit"
               ELSE IF fp.bits # 32 \/ fp.musl = "" THEN ""
               ELSE IF muslHasTime64(fp.musl) THEN "64-bit" ELSE "32-bit"
  BY DEF DeriveTimeT
<1>3. timeT' \in {"", "32-bit", "64-bit"}
  BY <1>2
<1>4. dev \in Devices
  BY TypeFacts DEF IInv
<1>5. ~shifted /\ elf # {} => timeT' \in {"", DeviceTimeT}
  <2>1. SUFFICES ASSUME ~shifted, elf # {} PROVE timeT' = "" \/ timeT' = DeviceTimeT
    OBVIOUS
  <2>2. fp.bits = dev.bits
    BY <2>1 DEF IInv, FingerprintInv
  <2>3. fp.musl # "" => fp.musl = dev.musl
    BY <2>1 DEF IInv, TellInv, MuslVersionIsMusls
  <2>4. CASE fp.bits = 64
    BY <1>2, <2>2, <2>4 DEF DeviceTimeT
  <2>5. CASE fp.bits # 64 /\ (fp.bits # 32 \/ fp.musl = "")
    BY <1>2, <2>5
  <2>6. CASE fp.bits # 64 /\ fp.bits = 32 /\ fp.musl # ""
    <3>1. fp.musl \in MuslVersions /\ fp.musl = dev.musl
      BY <1>4, <2>3, <2>6, DeviceFacts
    <3>2. muslHasTime64(fp.musl) <=> dev.musl \in {"1.2", "1.2.0", "1.2.3"}
      BY <3>1, MuslTime64
    <3>3. timeT' = IF muslHasTime64(fp.musl) THEN "64-bit" ELSE "32-bit"
      BY <1>2, <2>6
    <3>4. DeviceTimeT = IF dev.musl \in {"1.2", "1.2.0", "1.2.3"} THEN "64-bit" ELSE "32-bit"
      BY <2>2, <2>6 DEF DeviceTimeT
    <3> QED BY <3>2, <3>3, <3>4
  <2> QED BY <2>4, <2>5, <2>6
<1>6. PhaseInv'
  <2>1. DeviceTimeT' = DeviceTimeT
    BY <1>1 DEF DeviceTimeT
  <2>2. ~shifted => fp.isa # ""
    BY <1>1 DEF IInv, PhaseInv
  <2>3. pc' \notin BeforeHeader /\ pc' \notin WithHelper
    BY <1>1 DEF BeforeHeader, WithHelper
  <2> QED BY <1>1, <1>5, <2>1, <2>2, <2>3 DEF PhaseInv
<1>7. pc' \in Counters /\ pc' \notin Before /\ pc' # "musl"
  BY <1>1 DEF Counters, Before
<1> QED BY <1>1, <1>3, <1>6, <1>7, HelperTypes, QuietKeeps

-----------------------------------------------------------------------------
(* Theorems *)

LEMMA InitIInv == Init => IInv
<1> SUFFICES ASSUME Init PROVE IInv
  OBVIOUS
<1>1. /\ dev \in Devices /\ pc = "dial" /\ timeT = "" /\ stream = <<>> /\ up = TRUE
      /\ timeouts = 0 /\ others = 0 /\ shifted = FALSE /\ elf = {}
      /\ helper = NoHelper
  BY DEF Init
<1>2. fp = [isa |-> "", bits |-> 0, endian |-> "", float |-> "", libc |-> "", musl |-> ""]
  BY DEF Init
<1>3. fp \in Fingerprints /\ fp.isa = "" /\ fp.float = "" /\ fp.libc = "" /\ fp.musl = ""
  BY <1>2 DEF Fingerprints
<1>4. 0 \in 0..MaxTimeouts /\ 0 \in 0..MaxOtherRuns
  BY DetectAssumption
<1>5. SessionInv
  <2>1. <<>> \in Seq(Texts) /\ Len(<<>>) = 0
    BY EmptySeq
  <2>2. stream \in Seq(Texts) /\ Len(stream) = 0
    BY <1>1, <2>1
  <2>4. timeouts = 0 /\ timeouts \in 0..MaxTimeouts
    BY <1>1, <1>4
  <2>5. Len(stream) <= timeouts
    <3> HIDE DetectAssumption
    <3> QED BY <2>2, <2>4
  <2>6. up \in BOOLEAN /\ shifted \in BOOLEAN
    BY <1>1
  <2> QED BY <2>2, <2>4, <2>5, <2>6 DEF SessionInv
<1>6. helper \in [file : {"absent", "partial", "whole"}, exec : BOOLEAN]
  BY <1>1 DEF NoHelper
<1>7. pc \in Counters
  BY <1>1 DEF Counters
<1>8. TypeOK
  BY <1>1, <1>3, <1>4, <1>5, <1>6, <1>7, TypeFrom
<1>9. TellInv
  <2>1. Len(stream) = 0
    BY <1>1, EmptySeq
  <2>2. 1..Len(stream) = {}
    BY <2>1
  <2>3. \A k : StreamTold(k)
    BY <2>2 DEF StreamTold
  <2> QED BY <1>1, <1>3, <2>3 DEF TellInv, MuslVersionIsMusls
<1>10. FingerprintInv
  BY <1>1, <1>3 DEF FingerprintInv
<1>11. PhaseInv
  BY <1>1 DEF PhaseInv, WithHelper
<1> QED BY <1>5, <1>8, <1>9, <1>10, <1>11 DEF IInv

LEMMA StutterKeeps ==
  ASSUME IInv, UNCHANGED vars
  PROVE  IInv'
<1>1. /\ UNCHANGED <<dev, fp, sessionVars, elf>>
      /\ dev' = dev /\ pc' = pc /\ fp' = fp /\ timeT' = timeT /\ elf' = elf
      /\ helper' = helper /\ others' = others /\ shifted' = shifted
  BY DEF vars, fpVars, helperVars, sessionVars
<1>2. PhaseInv'
  BY <1>1 DEF IInv, PhaseInv, DeviceTimeT
<1>3. pc \in Counters
  BY DEF IInv, TypeOK, Counters
<1> QED BY <1>1, <1>2, <1>3, HelperTypes, QuietKeeps

LEMMA NextIInv ==
  ASSUME IInv, [Next]_vars
  PROVE  IInv'
<1>1. CASE Dial             BY <1>1, DialKeeps
<1>2. CASE AskUname         BY <1>2, AskUnameKeeps
<1>3. CASE AskCPUInfo       BY <1>3, AskCPUInfoKeeps
<1>4. CASE AskVersion       BY <1>4, AskVersionKeeps
<1>5. CASE AskLibc          BY <1>5, AskLibcKeeps
<1>6. CASE AskSoC           BY <1>6, AskSoCKeeps
<1>7. CASE AskFile          BY <1>7, AskFileKeeps
<1>8. CASE AskOD            BY <1>8, AskODKeeps
<1>9. CASE AskReadelf       BY <1>9, AskReadelfKeeps
<1>10. CASE ParseProcVersion BY <1>10, ParseProcVersionKeeps
<1>11. CASE AskOS           BY <1>11, AskOSKeeps
<1>12. CASE AskMuslVersion  BY <1>12, AskMuslVersionKeeps
<1>13. CASE EndPhase1       BY <1>13, EndPhase1Keeps
<1>14. CASE Phase2          BY <1>14, Phase2Keeps
<1>15. CASE UploadHelper    BY <1>15, UploadHelperKeeps
<1>16. CASE ChmodHelper     BY <1>16, ChmodHelperKeeps
<1>17. CASE RunHelper       BY <1>17, RunHelperKeeps
<1>18. CASE OtherRun        BY <1>18, OtherRunKeeps
<1>19. CASE DeriveTimeT     BY <1>19, DeriveTimeTKeeps
<1>20. CASE Done            BY <1>20, StutterKeeps DEF Done
<1>21. CASE UNCHANGED vars  BY <1>21, StutterKeeps
<1> QED
  BY <1>1, <1>2, <1>3, <1>4, <1>5, <1>6, <1>7, <1>8, <1>9, <1>10, <1>11, <1>12, <1>13, <1>14,
     <1>15, <1>16, <1>17, <1>18, <1>19, <1>20, <1>21 DEF Next

\* The inductive invariant: at every point of a detection that has read every
\* answer at its own place, a machine in the fingerprint comes with its width,
\* what has answered with the whole header is right, and phase 2 is only entered
\* for an ARM machine whose float ABI is not known.
THEOREM DetectInvariance == Spec => []IInv
<1>1. Init => IInv
  BY InitIInv
<1>2. IInv /\ [Next]_vars => IInv'
  BY NextIInv
<1> QED BY <1>1, <1>2, PTL DEF Spec

\* Every field of the fingerprint stays one of the values its parser knows, and
\* no more replies are left in the session than commands have timed out.
THEOREM TypeCorrect == Spec => []TypeOK
<1>1. IInv => TypeOK
  BY DEF IInv
<1> QED BY <1>1, DetectInvariance, PTL

\* Once one source that has read the ELF header has answered, the report is that
\* header, and a width of time_t that is stated is the device's, whatever the
\* kernel, /proc/cpuinfo and the defaults have said, whatever has timed out and
\* whatever other runs have done to the helper.
THEOREM ReportCorrect == Spec => []ReportIsTheDevices
<1>1. IInv => ReportIsTheDevices
  <2>1. SUFFICES ASSUME IInv, pc = "done", ~shifted
                 PROVE  /\ fp.isa # ""
                        /\ elf # {} => /\ fp.isa = dev.isa /\ fp.bits = dev.bits /\ fp.endian = dev.endian
                                       /\ timeT \in {"", DeviceTimeT}
                        /\ dev.isa = "arm" /\ fp.float # "" => fp.float = dev.float
    BY DEF ReportIsTheDevices
  <2>2. fp.isa # "" /\ (elf # {} => timeT \in {"", DeviceTimeT})
    BY <2>1 DEF IInv, PhaseInv
  <2>3. /\ elf # {} => fp.isa = dev.isa /\ fp.bits = dev.bits /\ fp.endian = dev.endian
        /\ dev.isa = "arm" /\ fp.float # "" => fp.float = dev.float
    BY <2>1 DEF IInv, FingerprintInv
  <2> QED BY <2>2, <2>3
<1> QED BY <1>1, DetectInvariance, PTL

\* A version of musl in the fingerprint is the one the loader of the device's
\* musl states, also when answers were read at the wrong place of the stream.  The
\* one text that may say "musl" beside a version of something else is that of
\* /proc/version, of a kernel that was built by a compiler for musl: it is in front
\* of the first text that names the loader, and read when the loader is looked for.
THEOREM MuslVersionCorrect == Spec => []MuslVersionIsMusls
<1>1. IInv => MuslVersionIsMusls
  BY DEF IInv, TellInv
<1> QED BY <1>1, DetectInvariance, PTL

\* Whatever becomes of the helper, running it takes nothing away that phase 1
\* has found.  A kernel that runs ARM programs beside those of the device would
\* let the helper correct the machine.
THEOREM HelperOnlyAdds ==
  ASSUME \A d \in Devices : "arm" \in d.machine => d.isa = "arm"
  PROVE  Spec => PhaseTwoOnlyAdds
<1> DEFINE A == pc = "run" /\ ~shifted =>
                  /\ fp'.isa = fp.isa
                  /\ fp.bits # 0 => fp'.bits = fp.bits
                  /\ fp.float # "" => fp'.float = fp.float
<1>1. IInv /\ [Next]_vars => [A]_vars
  <2>1. SUFFICES ASSUME IInv, Next, pc = "run", ~shifted
                 PROVE  /\ fp'.isa = fp.isa
                        /\ fp.bits # 0 => fp'.bits = fp.bits
                        /\ fp.float # "" => fp'.float = fp.float
    OBVIOUS
  <2>2. RunHelper \/ fp' = fp
    BY <2>1 DEF Next, Dial, AskUname, AskCPUInfo, AskVersion, AskLibc, AskSoC, AskFile, AskOD,
                AskReadelf, ParseProcVersion, AskOS, AskMuslVersion, EndPhase1, Phase2,
                UploadHelper, ChmodHelper, OtherRun, DeriveTimeT, Done, vars, fpVars, Ask
  <2>3. fp.isa = "arm" /\ fp.float = ""
    BY <2>1 DEF IInv, PhaseInv, WithHelper
  <2>4. CASE RunHelper
    <3>1. dev \in Devices /\ fp \in Fingerprints
      BY <2>1, TypeFacts DEF IInv
    <3>2. CASE fp' = fp
      BY <3>2
    <3>3. CASE /\ Runs(HelperFor(fp.isa, fp.endian, fp.libc))
               /\ fp' = ParseHelperOutput({HelperOutput})
      <4>1. dev.isa = "arm" /\ dev.endian = "little"
        BY <2>3, <3>1, <3>3, HelperPrints
      <4>2. fp'.isa = dev.isa /\ fp'.bits = dev.bits
        BY <3>1, <3>3, <4>1, HelperParsed
      <4>3. fp.bits = 32 /\ dev.bits = 32
        BY <2>1, <2>3, <3>1, <4>1, DeviceWidth DEF IInv, FingerprintInv
      <4> QED BY <2>3, <4>1, <4>2, <4>3
    <3> QED BY <2>1, <2>4, <3>2, <3>3, RunHelperIs
  <2> QED BY <2>2, <2>4
<1>2. PhaseTwoOnlyAdds <=> [][A]_vars
  BY DEF PhaseTwoOnlyAdds
<1> QED BY <1>1, <1>2, DetectInvariance, PTL DEF Spec
=============================================================================
