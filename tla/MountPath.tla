----------------------------- MODULE MountPath ------------------------------
(***************************************************************************)
(* The paths of /proc/self/mounts: how the kernel escapes them and how     *)
(* unescape_mount_path (SysInfo/Platform.cpp) gets them back.  A path is a *)
(* sequence of character codes.                                            *)
(***************************************************************************)
EXTENDS Naturals, SequencesExt

Backslash == 92
Digit0 == 48

\* "octal-escapes space, tab, newline and backslash"
Special == {32, 9, 10, Backslash}

OctalDigits == Digit0 .. Digit0 + 7

Octal(c) ==
  << Backslash, Digit0 + (c \div 64), Digit0 + ((c \div 8) % 8), Digit0 + (c % 8) >>

\* What the kernel writes for a character, and for a path.
Escaped(c) == IF c \in Special THEN Octal(c) ELSE <<c>>

escape(path) == FlattenSeq([i \in DOMAIN path |-> Escaped(path[i])])

\* Mutation of EscapeAt: an escape that ends the path is not seen.
EscapeAtNotLast(in, i) ==
  /\ in[i] = Backslash
  /\ i + 3 < Len(in)
  /\ \A j \in 1 .. 3 : in[i + j] \in OctalDigits

\* Is there an escape at i, in full?
EscapeAt(in, i) ==
  /\ in[i] = Backslash
  /\ i + 3 <= Len(in)
  /\ \A j \in 1 .. 3 : in[i + j] \in OctalDigits

\* The char of three octal digits, which is a byte.
OctalChar(in, i) ==
  ((in[i + 1] - Digit0) * 64 + (in[i + 2] - Digit0) * 8 + (in[i + 3] - Digit0)) % 256

\* What comes out of the characters from i on, for every i.
unescape_mount_path(in) ==
  LET from[i \in 1 .. Len(in) + 1] ==
        IF i > Len(in) THEN <<>>
        ELSE IF EscapeAt(in, i) THEN <<OctalChar(in, i)>> \o from[i + 4]
        ELSE <<in[i]>> \o from[i + 1]
  IN  from[1]
=============================================================================
