------------------------------- MODULE LogTail -------------------------------
(***************************************************************************)
(* The tail of a job's log: the last lines, and of them the last bytes     *)
(* (adapters/rayapi/client.go).  A log is a sequence of bytes; a byte is a *)
(* newline, a character, or the lead or a later byte of a longer one.      *)
(***************************************************************************)
EXTENDS Integers, Sequences, FiniteSets

CONSTANTS
  DefaultTailLines,   \* for a line limit of zero or less
  DefaultMaxBytes     \* for a byte limit of zero or less

ASSUME DefaultAssumption == DefaultTailLines \in Nat \ {0} /\ DefaultMaxBytes \in Nat \ {0}

Byte == {"newline", "char", "lead", "later"}

RuneStart(b) == b # "later"

Newlines(s) == {i \in DOMAIN s : s[i] = "newline"}

From(s, i) == SubSeq(s, i, Len(s))

(* The log without its last newline, which ends a line and starts none. *)
TrimSuffix(s) == IF s # <<>> /\ s[Len(s)] = "newline" THEN SubSeq(s, 1, Len(s) - 1) ELSE s

(* Mutant: the last newline starts one more line. *)
LastLinesUntrimmed(s, n) ==
  IF Cardinality(Newlines(s)) + 1 <= n THEN s
  ELSE From(s, 1 + CHOOSE i \in Newlines(s) : Cardinality({j \in Newlines(s) : j >= i}) = n)

LastLines(s, n) ==
  LET ends == Newlines(TrimSuffix(s))
  IN IF Cardinality(ends) + 1 <= n THEN s
     ELSE From(s, 1 + CHOOSE i \in ends : Cardinality({j \in ends : j >= i}) = n)

LastBytes(s, m) ==
  IF Len(s) <= m THEN s
  ELSE LET starts == {i \in Len(s) - m + 1 .. Len(s) : RuneStart(s[i])}
       IN IF starts = {} THEN <<>> ELSE From(s, CHOOSE i \in starts : \A j \in starts : i <= j)

BoundLogs(full, tailLines, maxBytes) ==
  LET out == LastBytes(LastLines(full, IF tailLines <= 0 THEN DefaultTailLines ELSE tailLines),
                       IF maxBytes <= 0 THEN DefaultMaxBytes ELSE maxBytes)
  IN [text |-> out, omitted |-> Len(full) - Len(out)]
=============================================================================
