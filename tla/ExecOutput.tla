------------------------------ MODULE ExecOutput ------------------------------
(***************************************************************************)
(* What exec keeps of a command's output (tool_exec.go): the first and the  *)
(* last bytes of each stream while it is written, then less of the longer   *)
(* stream until the whole result fits.  A byte is known by its rune, its    *)
(* place in it and the rune's length; length 0 is a byte that is no UTF-8.  *)
(***************************************************************************)
EXTENDS Naturals, Sequences, FiniteSets, SequencesExt, FiniteSetsExt

CONSTANTS
  Texts,    \* pairs of texts, one of each stream: a text is a sequence of rune lengths
  Limit,    \* bytes kept of a stream while it is written
  Budget,   \* bytes of both streams that fit into the result
  Marker    \* length of the mark put in place of what is left out

ExecOutputAssumption == {Limit, Budget, Marker} \subseteq Nat /\ Limit > 1

Streams == {"stdout", "stderr"}

VARIABLES
  source,   \* stream -> the bytes the command writes
  writer,   \* stream -> boundedWriter
  kept,     \* stream -> middleOutput
  text,     \* stream -> the text of the result
  cut,      \* streams marked truncated
  replaced, \* whether a stream was not UTF-8
  phase

vars == <<source, writer, kept, text, cut, replaced, phase>>

-----------------------------------------------------------------------------
(* Bytes and runes. *)

Byte(r, k, n) == [rune |-> r, at |-> k, of |-> n]
Rune(r, n) == IF n = 0 THEN <<Byte(r, 1, 0)>> ELSE [k \in 1 .. n |-> Byte(r, k, n)]
Bytes(t) == FlattenSeq([r \in DOMAIN t |-> Rune(r, t[r])])
Replacement == Rune(0, 3)

RuneStart(b) == b.at = 1

\* Whether the byte at i belongs to a whole rune of s.
Whole(s, i) ==
  LET first == i + 1 - s[i].at
      last == first - 1 + s[i].of
  IN /\ s[i].of > 0 /\ first >= 1 /\ last <= Len(s)
     /\ \A j \in first .. last : s[j].rune = s[i].rune

ValidString(s) == \A i \in DOMAIN s : Whole(s, i)

\* strings.ToValidUTF8: one replacement for each run of bytes of no rune.
ToValidUTF8(s) ==
  FlattenSeq([i \in DOMAIN s |->
    IF Whole(s, i) THEN <<s[i]>>
    ELSE IF i = 1 THEN Replacement
    ELSE IF Whole(s, i - 1) THEN Replacement ELSE <<>>])

First(s, n) == SubSeq(s, 1, Min({n, Len(s)}))
Final(s, n) == SubSeq(s, Len(s) + 1 - Min({n, Len(s)}), Len(s))

-----------------------------------------------------------------------------
(* boundedWriter *)

NewWriter == [head |-> <<>>, tail |-> <<>>, seen |-> 0]
headLimit == (Limit + 1) \div 2
tailLimit == Limit \div 2

Write(w, p) ==
  LET room == headLimit - Len(w.head)
      take == IF room > 0 THEN Min({room, Len(p)}) ELSE 0
      rest == SubSeq(p, take + 1, Len(p))
  IN [head |-> w.head \o First(p, take),
      tail |-> IF Len(rest) >= tailLimit THEN Final(rest, tailLimit)
               ELSE Final(w.tail \o rest, tailLimit),
      seen |-> w.seen + Len(p)]

-----------------------------------------------------------------------------
(* middleOutput *)

\* render drops the runes the cut has split, and counts them as omitted.
render(m) ==
  LET n == Len(m.head)
      starts == {i \in Max({1, n - 3}) .. n : i >= 1 /\ i <= n /\ RuneStart(m.head[i])}
      last == Max(starts)
      split == IF starts = {} THEN FALSE ELSE m.head[last].of > n + 1 - last
      head == IF split THEN First(m.head, last - 1) ELSE m.head
      heads == {j \in DOMAIN m.tail : RuneStart(m.tail[j])}
      skip == IF heads = {} THEN Len(m.tail) ELSE Min(heads) - 1
  IN IF m.omitted = 0 THEN m
     ELSE [head |-> head, tail |-> SubSeq(m.tail, skip + 1, Len(m.tail)),
           omitted |-> m.omitted + n - Len(head) + skip]

\* The length of what render returns.
Length(m) == Len(m.head) + Len(m.tail) + (IF m.omitted > 0 THEN Marker ELSE 0)

Truncated(w) == w.seen > Len(w.head) + Len(w.tail)

report(w) ==
  LET m == render([head |-> w.head, tail |-> w.tail,
                   omitted |-> w.seen - Len(w.head) - Len(w.tail)])
      bad == ~ValidString(m.head) \/ ~ValidString(m.tail)
  IN [replaced |-> bad,
      kept |-> IF bad
               THEN render([m EXCEPT !.head = ToValidUTF8(@), !.tail = ToValidUTF8(@)]) ELSE m]

trim(m, budget) ==
  LET keep == budget \div 2
      whole == m.head \o m.tail
      head == First(whole, keep)
      tail == SubSeq(whole, 1 + Max({Len(head), IF Len(whole) > keep THEN Len(whole) - keep ELSE 0}),
                     Len(whole))
      shorter == [head |-> First(m.head, keep), tail |-> Final(m.tail, keep), omitted |-> 0]
  IN IF m.omitted = 0
     THEN render([head |-> head, tail |-> tail, omitted |-> Len(whole) - Len(head) - Len(tail)])
     ELSE render([shorter EXCEPT !.omitted = m.omitted + Len(m.head) + Len(m.tail)
                                               - Len(shorter.head) - Len(shorter.tail)])

-----------------------------------------------------------------------------
(* A result. *)

None == [head |-> <<>>, tail |-> <<>>, omitted |-> 0]

Init ==
  /\ \E t \in Texts : source = [s \in Streams |-> Bytes(t[IF s = "stdout" THEN 1 ELSE 2])]
  /\ writer = [s \in Streams |-> NewWriter]
  /\ kept = [s \in Streams |-> None]
  /\ text = [s \in Streams |-> None]
  /\ cut = {}
  /\ replaced = FALSE
  /\ phase = "running"

\* The reader of a stream is given its next n bytes.
Writes(s, n) ==
  /\ phase = "running" /\ n >= 1 /\ writer[s].seen + n <= Len(source[s])
  /\ writer' = [writer EXCEPT ![s] = Write(@, SubSeq(source[s], @.seen + 1, @.seen + n))]
  /\ UNCHANGED <<source, kept, text, cut, replaced, phase>>

Report ==
  /\ phase = "running" /\ \A s \in Streams : writer[s].seen = Len(source[s])
  /\ kept' = [s \in Streams |-> report(writer[s]).kept]
  /\ text' = kept'
  /\ cut' = {s \in Streams : Truncated(writer[s])}
  /\ replaced' = \E s \in Streams : report(writer[s]).replaced
  /\ phase' = "trimming"
  /\ UNCHANGED <<source, writer>>

Fits == Length(text["stdout"]) + Length(text["stderr"]) <= Budget

\* faulty: stdout first, whichever is longer.
TrimStdout(s) ==
  /\ phase = "trimming" /\ ~Fits /\ \E r \in Streams : Length(text[r]) > 0
  /\ s = IF Length(text["stdout"]) > 0 THEN "stdout" ELSE "stderr"
  /\ LET m == trim(kept[s], Length(text[s]) \div 2)
     IN /\ kept' = [kept EXCEPT ![s] = m]
        /\ text' = [text EXCEPT ![s] = IF Length(m) >= Length(@) THEN None ELSE m]
  /\ cut' = cut \cup {s}
  /\ UNCHANGED <<source, writer, replaced, phase>>

\* trimToResultBudget: the longer stream, stdout when they are alike, is halved;
\* one that does not get shorter is dropped.
Trim(s) ==
  /\ phase = "trimming" /\ ~Fits /\ \E r \in Streams : Length(text[r]) > 0
  /\ s = IF Length(text["stdout"]) >= Length(text["stderr"]) THEN "stdout" ELSE "stderr"
  /\ LET m == trim(kept[s], Length(text[s]) \div 2)
     IN /\ kept' = [kept EXCEPT ![s] = m]
        /\ text' = [text EXCEPT ![s] = IF Length(m) >= Length(@) THEN None ELSE m]
  /\ cut' = cut \cup {s}
  /\ UNCHANGED <<source, writer, replaced, phase>>

Return ==
  /\ phase = "trimming" /\ (Fits \/ \A s \in Streams : Length(text[s]) = 0)
  /\ phase' = "done"
  /\ UNCHANGED <<source, writer, kept, text, cut, replaced>>

Next ==
  \/ \E s \in Streams : Trim(s) \/ \E n \in 1 .. Len(source[s]) : Writes(s, n)
  \/ Report \/ Return

Spec == Init /\ [][Next]_vars

-----------------------------------------------------------------------------
(* The reference: parity/cases/tools_exec.py works the result out from all    *)
(* bytes at once.                                                             *)

Clean(s) == SelectSeq([i \in DOMAIN s |-> [b |-> s[i], ok |-> Whole(s, i)]], LAMBDA x : x.ok)
clean(s) == [i \in DOMAIN Clean(s) |-> Clean(s)[i].b]

refRender(p) ==
  LET q == IF p.omitted = 0 THEN p
           ELSE [head |-> clean(p.head), tail |-> clean(p.tail),
                 omitted |-> p.omitted + Len(p.head) + Len(p.tail)
                               - Len(clean(p.head)) - Len(clean(p.tail))]
      noUtf8(s) == \E i \in DOMAIN s : s[i].of = 0
  IN IF noUtf8(q.head \o q.tail)
     THEN [q EXCEPT !.head = ToValidUTF8(@), !.tail = ToValidUTF8(@)] ELSE q

refPieces(s) ==
  LET n == Len(source[s])
  IN refRender([head |-> First(source[s], headLimit),
                tail |-> IF n > Limit THEN Final(source[s], tailLimit)
                         ELSE SubSeq(source[s], headLimit + 1, n),
                omitted |-> IF n > Limit THEN n - Limit ELSE 0])

RECURSIVE refTrim(_, _)
refTrim(pieces, data) ==
  LET s == IF Length(data["stdout"]) >= Length(data["stderr"]) THEN "stdout" ELSE "stderr"
      before == Length(data[s])
      keep == before \div 4
      p == pieces[s]
      all == p.head \o p.tail
      from == Max({keep, IF Len(all) > keep THEN Len(all) - keep ELSE 0})
      next == refRender(
        IF p.omitted = 0
        THEN [head |-> First(all, keep), tail |-> SubSeq(all, from + 1, Len(all)),
              omitted |-> Len(all) - Len(First(all, keep)) - Len(SubSeq(all, from + 1, Len(all)))]
        ELSE [head |-> First(p.head, keep), tail |-> Final(p.tail, keep),
              omitted |-> p.omitted + Len(p.head) + Len(p.tail)
                            - Len(First(p.head, keep)) - Len(Final(p.tail, keep))])
      shown == IF Length(next) >= before THEN None ELSE next
  IN IF Length(data["stdout"]) + Length(data["stderr"]) <= Budget
          \/ \A r \in Streams : Length(data[r]) = 0
     THEN data
     ELSE refTrim([pieces EXCEPT ![s] = next], [data EXCEPT ![s] = shown])

reference ==
  LET pieces == [s \in Streams |-> refPieces(s)] IN refTrim(pieces, pieces)

-----------------------------------------------------------------------------
(* Properties. *)

Utf8(s) == \A i \in DOMAIN source[s] : source[s][i].of > 0

\* Whether a rune of a stream that is kept whole lies across the place where
\* the head is full.
Straddles(s) ==
  /\ Len(source[s]) <= Limit /\ Len(source[s]) > headLimit
  /\ source[s][headLimit + 1].at > 1

TypeOK ==
  /\ phase \in {"running", "trimming", "done"}
  /\ cut \subseteq Streams
  /\ \A s \in Streams : Len(writer[s].head) <= headLimit /\ Len(writer[s].tail) <= tailLimit

\* However a stream is cut into writes, its first and last bytes are kept and
\* every byte is counted.
KeepsEnds ==
  \A s \in Streams :
    LET sent == First(source[s], writer[s].seen)
        rest == SubSeq(sent, headLimit + 1, Len(sent))
    IN writer[s] = [head |-> First(sent, headLimit), tail |-> Final(rest, tailLimit), seen |-> Len(sent)]

\* What the model is shown of a stream in UTF-8 is its start and its end, split
\* at no rune, with the number of bytes left out between them (_assert_stream).
ShowsEnds ==
  phase = "done" =>
    \A s \in Streams : (Utf8(s) /\ text[s] # None /\ ~Straddles(s)) =>
      /\ IsPrefix(text[s].head, source[s])
      /\ IsSuffix(text[s].tail, source[s])
      /\ Len(text[s].head) + text[s].omitted + Len(text[s].tail) = Len(source[s])
      /\ text[s].omitted > 0 => ValidString(text[s].head) /\ ValidString(text[s].tail)
      /\ text[s].omitted > 0 => s \in cut

\* The result fits, and equals the one worked out from all bytes at once, for
\* streams that are UTF-8 or short.
MatchesReference ==
  phase = "done" =>
    /\ Fits \/ \A s \in Streams : Length(text[s]) = 0
    /\ (\A s \in Streams : ~Straddles(s) /\ (Utf8(s) \/ Len(source[s]) <= Limit)) => text = reference

=============================================================================
