----------------------------- MODULE LineFilter -----------------------------
(***************************************************************************)
(* The LineFilter of app/console/test, which passes the text of go test on *)
(* and leaves out the lines that say a package has no test files.  It is   *)
(* given the text in chunks that end anywhere, in the middle of the marker *)
(* included, and the writer behind it may fail at any line.                *)
(***************************************************************************)
EXTENDS Naturals, Sequences, FiniteSets, SequencesExt

CONSTANTS
  MaxBytes,       (* Bound on the bytes given to the filter, for TLC.      *)
  MaxChunk        (* Bound on the bytes of one Write, for TLC.             *)

VARIABLES
  written,        (* Every byte given to Write so far.                     *)
  writing,        (* Whether Write is in its loop.                         *)
  pending,        (* What waits for the end of its line.                   *)
  forwarded,      (* Every byte that Out has taken.                        *)
  dropped,        (* How many lines were left out.                         *)
  outErr          (* Whether a write to Out has failed.                    *)

filterVars == <<written, writing, pending, forwarded, dropped, outErr>>

(* A marker of two bytes, and the newline.                                 *)
Byte == {"[", "]", "newline"}

Chunk == UNION {[1..n -> Byte] : n \in 1..MaxChunk}

IsNoTestFilesLine(line) == \E i \in 1..Len(line) - 1 : line[i] = "[" /\ line[i + 1] = "]"

FilterInit ==
  /\ written = <<>> /\ writing = FALSE /\ pending = <<>>
  /\ forwarded = <<>> /\ dropped = 0 /\ outErr = FALSE

WholeLine(text) == Contains(text, "newline")

(* The bytes up to and with the first newline.                             *)
FirstLine(text) == SubSeq(text, 1, CHOOSE i \in DOMAIN text :
  text[i] = "newline" /\ \A j \in 1..i - 1 : text[j] # "newline")

(* Write begins with another chunk.                                        *)
Write(chunk) ==
  /\ ~writing /\ ~outErr /\ Len(written) + Len(chunk) <= MaxBytes
  /\ written' = written \o chunk
  /\ pending' = pending \o chunk
  /\ writing' = TRUE
  /\ UNCHANGED <<forwarded, dropped, outErr>>

(* What becomes of a line taken out of pending.                            *)
Pass(line) ==
  IF IsNoTestFilesLine(line)
    THEN dropped' = dropped + 1 /\ UNCHANGED <<forwarded, outErr>>
    ELSE /\ UNCHANGED dropped
         /\ \/ forwarded' = forwarded \o line /\ UNCHANGED outErr
            \/ outErr' = TRUE /\ UNCHANGED forwarded

(* Mutant: each Write is filtered by itself.                               *)
TakeChunk ==
  /\ writing /\ pending # <<>>
  /\ Pass(pending)
  /\ pending' = <<>>
  /\ writing' = ~outErr'
  /\ UNCHANGED written

(* One turn of the loop of Write, which a failed write leaves.             *)
TakeLine ==
  /\ writing /\ WholeLine(pending)
  /\ Pass(FirstLine(pending))
  /\ pending' = SubSeq(pending, Len(FirstLine(pending)) + 1, Len(pending))
  /\ writing' = ~outErr'
  /\ UNCHANGED written

WriteDone ==
  /\ writing /\ ~WholeLine(pending)
  /\ writing' = FALSE
  /\ UNCHANGED <<written, pending, forwarded, dropped, outErr>>

(* Flush passes on a last line without a newline, or, after a failed       *)
(* write, everything that was still pending as if it were one line.        *)
FlushRest ==
  /\ ~writing
  /\ IF pending = <<>> THEN UNCHANGED <<forwarded, dropped, outErr>> ELSE Pass(pending)
  /\ pending' = <<>>
  /\ UNCHANGED <<written, writing>>

FilterTypeOK ==
  /\ {written, pending, forwarded} \subseteq Seq(Byte)
  /\ writing \in BOOLEAN /\ outErr \in BOOLEAN
  /\ dropped \in Nat

-----------------------------------------------------------------------------
(* What should have come out, from the whole text at once.                 *)

(* The bytes of the line that position i of the text is in.                *)
LineAround(text, i) ==
  {j \in DOMAIN text : \A m \in DOMAIN text :
     (i <= m /\ m < j) \/ (j <= m /\ m < i) => text[m] # "newline"}

MarkedAt(text, i) ==
  \E j \in LineAround(text, i) :
    j + 1 \in LineAround(text, i) /\ text[j] = "[" /\ text[j + 1] = "]"

Unmarked(text) == {i \in DOMAIN text : ~MarkedAt(text, i)}

(* What came out of the text: each byte of a line without the marker, as   *)
(* far down as such bytes precede it, and nothing else.                    *)
Filtered(text, out) ==
  /\ Len(out) = Cardinality(Unmarked(text))
  /\ \A i \in Unmarked(text) : out[Cardinality({j \in Unmarked(text) : j <= i})] = text[i]

=============================================================================
