---------------------------- MODULE ChunkMessage ----------------------------
(***************************************************************************)
(* chunk4096 (internal/platform/telegram/keyboards.go): a rendered message *)
(* cut into pieces Telegram accepts.  One action is one turn of its loop.  *)
(*                                                                         *)
(* A text is what ToTelegramHTML and esc emit: characters, newlines, runes *)
(* of several bytes, escaped entities and tags, of any length.  Bytes      *)
(* carry no more than the code, or Telegram's parser, looks at; which tag  *)
(* it is (b, i, code, pre, a) is left out.                                 *)
(***************************************************************************)
EXTENDS Naturals, FiniteSets, SequencesExt

CONSTANTS
  tgMaxMessage,  \* the message limit in bytes
  Tails,         \* how many bytes follow the first one of a rune
  Names,         \* how many bytes the names of entities and closing tags have
  Attributes,    \* what an opening tag has between its name and its end
  MaxAtoms       \* bound: the length of the texts tried

Repeat(x, n) == [k \in 1 .. n |-> x]

(* A plain character: one the code does not look at, or ';', which it does. *)
Char == <<"x">>
Semicolon == <<"semi">>
Newline == <<"nl">>
Runes == {<<"lead">> \o Repeat("cont", n) : n \in Tails}
Entities == {<<"amp">> \o Repeat("x", n) \o <<"semi">> : n \in Names}
Opens == {<<"<", "b">> \o h \o <<">">> : h \in Attributes}
Closes == {<<"<", "/">> \o Repeat("x", n) \o <<">">> : n \in Names}
Atoms == {Char, Semicolon, Newline} \cup Runes \cup Entities \cup Opens \cup Closes

(* An attribute is escaped: no angle brackets, and its entities are whole. *)
ASSUME AtomAssumption ==
  /\ Tails \subseteq Nat /\ Names \subseteq Nat /\ MaxAtoms \in Nat
  /\ \A h \in Attributes :
       /\ h \in Seq({"x", "lead", "cont", "amp", "semi"})
       /\ \A k \in 1 .. Len(h) : h[k] = "amp" => \E j \in k + 1 .. Len(h) : h[j] = "semi"

(* No atom is longer than half of the window, so that backing up over one  *)
(* leaves more than half of it.  The code's limit is 4096 bytes.           *)
ASSUME LimitAssumption ==
  /\ tgMaxMessage \in Nat
  /\ \A a \in Atoms : tgMaxMessage \div 2 + Len(a) <= tgMaxMessage

Count(bytes, x) == Cardinality({k \in DOMAIN bytes : bytes[k] = x})

(* Every element that is opened is closed; none is closed that is not open. *)
WellNested(bytes) ==
  /\ Count(bytes, "b") = Count(bytes, "/")
  /\ \A n \in DOMAIN bytes :
       LET before == SubSeq(bytes, 1, n)
       IN  bytes[n] = "/" => Count(before, "/") <= Count(before, "b")

VARIABLES
  atoms,  \* the text
  s,      \* the bytes not yet chunked
  out,    \* the chunks so far
  done    \* chunk4096 returned

vars == <<atoms, s, out, done>>

Init ==
  /\ \E n \in 1 .. MaxAtoms : atoms \in [1 .. n -> Atoms]
  /\ s = FlattenSeq(atoms)
  /\ WellNested(s)
  /\ out = <<>>
  /\ done = FALSE

-----------------------------------------------------------------------------
(* strings.LastIndexByte(s[:n], c), counted from 1; 0 when there is none. *)
LastIndex(c, n) == Max({0} \cup {k \in 1 .. n : s[k] = c})

LastNewline == LastIndex("nl", tgMaxMessage)

(* Mutant: any newline will do. *)
NewlineNearAny == LastNewline > 0

(* A newline in the second half of the window. *)
NewlineNear == LastNewline - 1 > tgMaxMessage \div 2

(* Mutant: no snapping to a rune. *)
RuneCutNone == tgMaxMessage

(* The last cut in the window that does not end mid-rune, if there is one. *)
RuneCut ==
  LET starts == {c \in 1 .. tgMaxMessage : s[c + 1] # "cont"}
  IN  IF starts = {} THEN tgMaxMessage ELSE Max(starts)

(* The position of an opening byte that is not closed before cut, or cut. *)
Unclosed(opening, closing, cut) ==
  LET at == LastIndex(opening, cut)
  IN  IF at > 0 /\ LastIndex(closing, cut) < at THEN at - 1 ELSE cut

(* htmlSafeCut, and its caller's use of it: a cut that would come out      *)
(* empty is left where it was.                                             *)
SafeCut(cut) ==
  LET back == Min({Unclosed("amp", "semi", cut), Unclosed("<", ">", cut)})
  IN  IF back = 0 THEN cut ELSE back

(* Mutant: the next chunk starts one byte late. *)
SplitLosing(cut) ==
  /\ out' = Append(out, SubSeq(s, 1, cut))
  /\ s' = SubSeq(s, cut + 2, Len(s))
Split(cut) ==
  /\ out' = Append(out, SubSeq(s, 1, cut))
  /\ s' = SubSeq(s, cut + 1, Len(s))

CutAtNewline ==
  /\ Len(s) > tgMaxMessage
  /\ NewlineNear
  /\ Split(SafeCut(LastNewline))
  /\ UNCHANGED <<atoms, done>>

CutHard ==
  /\ Len(s) > tgMaxMessage
  /\ ~NewlineNear
  /\ Split(SafeCut(RuneCut))
  /\ UNCHANGED <<atoms, done>>

(* What is left fits: the last chunk, or the only one. *)
Rest ==
  /\ ~done
  /\ Len(s) <= tgMaxMessage
  /\ out' = IF s = <<>> THEN out ELSE Append(out, s)
  /\ s' = <<>>
  /\ done' = TRUE
  /\ UNCHANGED atoms

Next == CutAtNewline \/ CutHard \/ Rest

Spec == Init /\ [][Next]_vars

-----------------------------------------------------------------------------
(* Properties *)

(* "Chunks are lossless": nothing is dropped, doubled or reordered. *)
Lossless == FlattenSeq(out) \o s = FlattenSeq(atoms)

(* Telegram takes every piece: none is empty and none over the limit.      *)
(* Backing up to a newline, a rune or an opening byte leaves every chunk   *)
(* but the last more than half full, so a text takes at most twice the     *)
(* messages it must.                                                       *)
Fits ==
  \A k \in DOMAIN out :
    /\ Len(out[k]) \in 1 .. tgMaxMessage
    /\ k < Len(out) \/ ~done => Len(out[k]) > tgMaxMessage \div 2

(* No chunk ends inside a rune, an entity or a tag: what is left to chunk  *)
(* always begins with a whole atom.                                        *)
AtomsWhole ==
  \E n \in 0 .. Len(atoms) : s = FlattenSeq(SubSeq(atoms, n + 1, Len(atoms)))

(* keyboards.go: "so each chunk parses cleanly on its own"; render.go      *)
(* sends every chunk as HTML on the strength of it.  Telegram refuses a    *)
(* message whose elements are not closed.                                  *)
ChunksParse == \A k \in DOMAIN out : WellNested(out[k])
=============================================================================
