----------------------------- MODULE MCDetect -----------------------------
(* Devices for the checks of Detect. *)
EXTENDS Detect

\* An ARM device whose tools are missing; the others differ from it.
Camera ==
  [machine |-> {"armv7l"}, toolchain |-> {"arm"}, isa |-> "arm", bits |-> 32, endian |-> "little",
   float |-> "hard", flags |-> TRUE, vfp |-> TRUE, byteorder |-> FALSE, libcs |-> {"uClibc"},
   musl |-> "", tools |-> {}]

Musl(d, v) == [d EXCEPT !.libcs = {"musl"}, !.musl = v]
With(d, tools) == [d EXCEPT !.tools = tools]

\* A 64-bit kernel with a 32-bit userland; /proc/version has a version, of something
\* else, beside the name of a compiler for musl.
Compat == [Musl(Camera, "1.1.24") EXCEPT !.machine = {"aarch64"},
                                         !.toolchain = {"aarch64", "musl", "2.28"}]

\* It alone: without file and od no command looks at an ELF header.
OnlyCompat == {Compat}

Router == [Camera EXCEPT !.machine = {"mips"}, !.toolchain = {"mips"}, !.isa = "mips",
                         !.endian = "big", !.float = "", !.flags = FALSE, !.vfp = FALSE]
Octeon == [Router EXCEPT !.machine = {"mips", "mips64"}]

PC == [Camera EXCEPT !.machine = {"x86_64"}, !.toolchain = {"x86_64"}, !.isa = "x86_64", !.bits = 64,
                     !.float = "", !.flags = FALSE, !.vfp = FALSE, !.libcs = {"glibc"}]

\* Known only by its ELF header.
Unnamed == [Camera EXCEPT !.machine = {"armv5teb"}, !.toolchain = {}]

Small ==
  { Camera, With(Camera, {"od"}), With([Camera EXCEPT !.float = "soft", !.flags = FALSE], {"readelf"}),
    [Camera EXCEPT !.flags = FALSE], Unnamed, With(Unnamed, {"file"}),
    Musl(Camera, "1.2.3"), With(Musl([Camera EXCEPT !.float = "soft"], "1.2"), {"file", "od"}),
    [Musl(Camera, "1.1.24") EXCEPT !.libcs = {"musl", "glibc"}],
    [Camera EXCEPT !.libcs = {"glibc"}],
    Compat, With(Compat, {"file"}), With(Compat, {"od", "readelf"}),
    With(Router, {"od"}), With([Router EXCEPT !.endian = "little", !.byteorder = TRUE], {}),
    With([Router EXCEPT !.endian = "little"], {"file"}),
    Octeon, With(Octeon, {"file"}), With([Octeon EXCEPT !.bits = 64], {"od"}),
    PC, With([PC EXCEPT !.isa = "x86", !.bits = 32], {"file", "od"}) }
=============================================================================
