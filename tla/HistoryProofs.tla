---------------------------- MODULE HistoryProofs ----------------------------
(***************************************************************************)
(* What the change history keeps true, for any processes, records, edits   *)
(* and faults.  Beyond the types the invariant has two parts.  UndoInv:    *)
(* every line, wherever it is on its way to the file, is of an edit that   *)
(* was done and says what it replaced, unless another edit came between.   *)
(* FileInv: the file, and every copy that may take its place, holds each   *)
(* entry that ran no risk, no further from its end than the entry is from  *)
(* the last one written; a copy may be anything while all that was written *)
(* runs a risk.                                                            *)
(***************************************************************************)
EXTENDS History, SequenceTheorems, FiniteSetTheorems, TLAPS

Ats == {"idle", "update"} \cup Appending \cup Trims
Works == [at : Ats, edit : Values, todo : SUBSET Records, log : Seq(Entries), kept : Seq(Lines),
          on : {"none", "live", "temp", "gone"}]

EditTypes ==
  /\ value \in [Records -> Values] /\ previous \in [Entries -> Values]
  /\ replaced \in [Entries -> Values] /\ crossed \subseteq Entries
  /\ budget \in [edit : 0..MaxEdits, fault : Nat]
NoteTypes == written \in Seq(Entries) /\ risked \subseteq Entries

\* An operation has something to write where it writes, and a handle only there.
WorkInv ==
  \A w \in Writers :
    /\ work[w].at = "update" => work[w].edit \in Edits
    /\ work[w].at \in {"open", "flush"} => work[w].log # <<>>
    /\ work[w].at = "flush" => work[w].on \in {"live", "gone"}
    /\ work[w].at = "writetmp" => work[w].on \in {"live", "temp", "gone"}
    /\ work[w].at \notin {"flush", "writetmp"} => work[w].on = "none"

\* The lines of the files, and those on their way to them, are in S.
LinesIn(S) ==
  /\ live \in Seq(S) /\ temp \in Seq(S)
  /\ \A w \in Writers : work[w].kept \in Seq(S) /\ work[w].log \in Seq(S)

WorkTypes == work \in [Writers -> Works] /\ waiting \in BOOLEAN /\ WorkInv
TypeInv == EditTypes /\ NoteTypes /\ WorkTypes /\ LinesIn(Lines)

\* What an undo entry says, once its edit is done.
Kept(x) ==
  x \in Entries =>
    /\ x[1] < NextEdit /\ replaced[x] # x[1]
    /\ x \in crossed \/ previous[x] = replaced[x]
Good == {x \in Lines : Kept(x)}

\* An edit under way has not written what it is still to write, and read what it will
\* replace, unless another edit came between.
UndoInv ==
  /\ \A r \in Records : value[r] < NextEdit
  /\ \A w \in Writers : work[w].at = "update" =>
       /\ work[w].edit < NextEdit
       /\ \A r \in work[w].todo :
            /\ value[r] # work[w].edit
            /\ <<work[w].edit, r>> \in crossed \/ previous[<<work[w].edit, r>>] = value[r]
  /\ \A v, w \in Writers : v # w /\ work[v].at = "update" /\ work[w].at = "update" =>
       work[v].edit # work[w].edit
  /\ LinesIn(Good)

\* s may stand for all that was written.
Sound(s) ==
  \A p \in 1..Len(written) :
    p > Len(written) - HistoryKeep /\ written[p] \notin risked =>
      \E i \in 1..Len(s) : s[i] = written[p] /\ Len(s) - i <= Len(written) - p
AllRisked == \A p \in 1..Len(written) : written[p] \in risked

FileInv ==
  /\ Sound(live)
  /\ \A w \in Writers : work[w].at \in {"opentmp", "writetmp"} => Sound(work[w].kept)
  /\ \A w \in Writers : work[w].at = "writetmp" => AllRisked \/ (work[w].on = "temp" /\ temp = <<>>)
  /\ \A w \in Writers : work[w].at = "replace" /\ waiting => Sound(temp)
  /\ \A v, w \in Trimming : v # w => AllRisked
-----------------------------------------------------------------------------
(* Sequences of lines.                                                     *)

\* What the lines are.
LEMMA LineFacts ==
  /\ Entries \subseteq Lines /\ Torn \in Lines /\ Cut \in Lines /\ Torn # Cut
  /\ Torn \notin Entries /\ Cut \notin Entries
  /\ \A x \in Entries : x[1] \in Edits /\ x[2] \in Records /\ x = <<x[1], x[2]>>
  BY DEF Lines, Entries, Torn, Cut, Edits, NoEdit

\* A part of a sequence.
LEMMA PartType ==
  ASSUME NEW S, NEW s \in Seq(S), NEW m \in Int, NEW n \in Int, m >= 1, n <= Len(s)
  PROVE  /\ SubSeq(s, m, n) \in Seq(S)
         /\ Len(SubSeq(s, m, n)) = IF m <= n THEN n - m + 1 ELSE 0
         /\ \A i \in 1..Len(SubSeq(s, m, n)) : SubSeq(s, m, n)[i] = s[m + i - 1]
<1>1. Len(s) \in Nat /\ \A i \in 1..Len(s) : s[i] \in S
  BY LenProperties, ElementOfSeq
<1>2. CASE m <= n
  BY <1>1, <1>2, SubSeqProperties
<1>3. CASE ~(m <= n)
  BY <1>3, EmptySeq
<1> QED
  BY <1>2, <1>3

\* All but the last.
LEMMA FrontPart ==
  ASSUME NEW S, NEW s \in Seq(S), Len(s) > 0
  PROVE  /\ SubSeq(s, 1, Len(s) - 1) \in Seq(S) /\ Len(SubSeq(s, 1, Len(s) - 1)) = Len(s) - 1
         /\ \A i \in 1..(Len(s) - 1) : SubSeq(s, 1, Len(s) - 1)[i] = s[i]
<1>1. PICK n \in Nat : n = Len(s) - 1
  BY LenProperties
<1>2. 1 \in Int /\ n \in Int /\ 1 >= 1 /\ n <= Len(s)
  BY <1>1, LenProperties
<1>3. SubSeq(s, 1, n) \in Seq(S) /\ Len(SubSeq(s, 1, n)) = IF 1 <= n THEN n - 1 + 1 ELSE 0
  BY <1>2, PartType
<1>4. \A i \in 1..Len(SubSeq(s, 1, n)) : SubSeq(s, 1, n)[i] = s[1 + i - 1]
  BY <1>2, PartType
<1> QED
  BY <1>1, <1>3, <1>4

\* What gluing two sequences makes: all of the first but a line that was not ended,
\* and no more lines than both have.
LEMMA GlueType ==
  ASSUME NEW S, Torn \in S, Cut \in S, NEW s \in Seq(S), NEW t \in Seq(S)
  PROVE  Glue(s, t) \in Seq(S)
<1>1. CASE Unended(s) /\ t # <<>>
  <2>1. Len(s) \in Nat \ {0}
    BY <1>1, LenProperties, EmptySeq DEF Unended
  <2>2. SubSeq(s, 1, Len(s) - 1) \in Seq(S)
    BY <2>1, PartType
  <2>3. Tail(t) \in Seq(S)
    BY <1>1, HeadTailProperties
  <2>4. <<IF t[1] = Cut THEN Cut ELSE Torn>> \in Seq(S)
    OBVIOUS
  <2>5. SubSeq(s, 1, Len(s) - 1) \o <<IF t[1] = Cut THEN Cut ELSE Torn>> \in Seq(S)
    BY <2>2, <2>4, ConcatProperties
  <2>6. SubSeq(s, 1, Len(s) - 1) \o <<IF t[1] = Cut THEN Cut ELSE Torn>> \o Tail(t) \in Seq(S)
    BY <2>3, <2>5, ConcatProperties
  <2> QED
    BY <1>1, <2>6 DEF Glue
<1>2. CASE ~(Unended(s) /\ t # <<>>)
  BY <1>2, ConcatProperties DEF Glue
<1> QED
  BY <1>1, <1>2

\* One line more.
LEMMA GlueOne ==
  ASSUME NEW s \in Seq(Lines), NEW x \in Lines
  PROVE  /\ Len(Glue(s, <<x>>)) = IF Unended(s) THEN Len(s) ELSE Len(s) + 1
         /\ \A i \in 1..Len(s) : s[i] \in Entries => Glue(s, <<x>>)[i] = s[i] /\ i <= Len(Glue(s, <<x>>))
         /\ ~Unended(s) => Glue(s, <<x>>)[Len(s) + 1] = x
<1>1. Len(s) \in Nat
  BY LenProperties
<1>2. CASE ~Unended(s)
  <2>1. Glue(s, <<x>>) = Append(s, x)
    BY <1>2, AppendIsConcat DEF Glue
  <2> QED
    BY <1>1, <1>2, <2>1, AppendProperties
<1>3. CASE Unended(s)
  <2> DEFINE front == SubSeq(s, 1, Len(s) - 1)
             y == IF <<x>>[1] = Cut THEN Cut ELSE Torn
  <2>1. Len(s) > 0 /\ s[Len(s)] \notin Entries
    BY <1>1, <1>3, EmptySeq, LineFacts DEF Unended
  <2>2. front \in Seq(Lines) /\ Len(front) = Len(s) - 1 /\ \A i \in 1..(Len(s) - 1) : front[i] = s[i]
    BY <1>1, <2>1, FrontPart
  <2>3. y \in Lines /\ <<x>> # <<>> /\ Tail(<<x>>) = <<>>
    BY LineFacts
  <2> HIDE DEF front, y
  <2>4. Glue(s, <<x>>) = Append(front, y)
    <3>1. Glue(s, <<x>>) = front \o <<y>> \o Tail(<<x>>)
      BY <1>3, <2>3 DEF Glue, front, y
    <3>2. Append(front, y) = front \o <<y>> /\ Append(front, y) \in Seq(Lines)
      BY <2>2, <2>3, AppendIsConcat, AppendProperties
    <3> QED
      BY <3>1, <3>2, <2>3, ConcatEmptySeq
  <2>5. Len(Append(front, y)) = Len(s) /\ \A i \in 1..(Len(s) - 1) : Append(front, y)[i] = s[i]
    BY <1>1, <2>1, <2>2, <2>3, AppendProperties
  <2> QED
    BY <1>1, <1>3, <2>1, <2>4, <2>5
<1> QED
  BY <1>2, <1>3

\* The newest lines.
LEMMA NewestType ==
  ASSUME NEW S, NEW s \in Seq(S), NEW n \in Nat
  PROVE  /\ Newest(s, n) \in Seq(S)
         /\ Len(Newest(s, n)) = IF Len(s) <= n THEN Len(s) ELSE n
         /\ \A i \in 1..Len(Newest(s, n)) : Newest(s, n)[i] = s[Len(s) - Len(Newest(s, n)) + i]
<1>1. Len(s) \in Nat
  BY LenProperties
<1>2. CASE Len(s) <= n
  BY <1>1, <1>2 DEF Newest
<1>3. CASE ~(Len(s) <= n)
  <2>1. Newest(s, n) = SubSeq(s, Len(s) - n + 1, Len(s))
    BY <1>3 DEF Newest
  <2>2. /\ SubSeq(s, Len(s) - n + 1, Len(s)) \in Seq(S)
        /\ Len(SubSeq(s, Len(s) - n + 1, Len(s))) = n
        /\ \A i \in 1..n : SubSeq(s, Len(s) - n + 1, Len(s))[i] = s[Len(s) - n + 1 + i - 1]
    BY <1>1, <1>3, PartType
  <2> QED
    BY <1>1, <1>3, <2>1, <2>2
<1> QED
  BY <1>2, <1>3

\* The last line ended.
LEMMA EndedType ==
  ASSUME NEW S, Torn \in S, NEW s \in Seq(S)
  PROVE  /\ Ended(s) \in Seq(S) /\ Len(Ended(s)) = Len(s)
         /\ \A i \in 1..Len(s) : s[i] # Cut => Ended(s)[i] = s[i]
<1>1. Len(s) \in Nat /\ DOMAIN s = 1..Len(s) /\ \A i \in 1..Len(s) : s[i] \in S
  BY LenProperties, ElementOfSeq
<1>2. Ended(s) \in [1..Len(s) -> S]
  BY <1>1 DEF Ended
<1>3. Ended(s) \in Seq(S) /\ Len(Ended(s)) = Len(s)
  BY <1>1, <1>2, SeqDef, LenProperties
<1> QED
  BY <1>1, <1>3 DEF Ended

\* What a write from the beginning leaves.
LEMMA OverType ==
  ASSUME NEW S, Torn \in S, Cut \in S, NEW new \in Seq(S), NEW old \in Seq(S), NEW s \in Over(new, old)
  PROVE  s \in Seq(S)
<1>1. Len(old) \in Nat /\ DOMAIN old = 1..Len(old)
  BY LenProperties
<1>2. \A rest \in Rests(old) : rest \in Seq(S)
  <2>1. ASSUME NEW k \in 2..(Len(old) + 1) PROVE SubSeq(old, k, Len(old)) \in Seq(S)
    BY <1>1, PartType
  <2>2. ASSUME NEW k \in DOMAIN old
        PROVE  <<IF old[k] = Cut THEN Cut ELSE Torn>> \o SubSeq(old, k + 1, Len(old)) \in Seq(S)
    <3>1. SubSeq(old, k + 1, Len(old)) \in Seq(S) /\ <<IF old[k] = Cut THEN Cut ELSE Torn>> \in Seq(S)
      BY <1>1, PartType
    <3> QED
      BY <3>1, ConcatProperties
  <2> QED
    BY <2>1, <2>2 DEF Rests
<1> QED
  BY <1>2, GlueType DEF Over

\* Nothing is left behind in an empty file.
LEMMA OverEmpty ==
  ASSUME NEW new \in Seq(Lines), NEW s \in Over(new, <<>>)
  PROVE  s = new
<1>1. Len(<<>>) = 0 /\ DOMAIN <<>> = {}
  BY EmptySeq
<1>2. Rests(<<>>) = {}
  BY <1>1 DEF Rests
<1> QED
  BY <1>2 DEF Over

-----------------------------------------------------------------------------
(* Types.                                                                  *)

\* The budget goes down, and the numbers of the edits up.
LEMMA Spending ==
  ASSUME EditTypes, NEW what \in {"edit", "fault"}, Afford(what)
  PROVE  /\ budget' \in [edit : 0..MaxEdits, fault : Nat]
         /\ what = "edit" => NextEdit \in Edits /\ NextEdit' = NextEdit + 1
         /\ what = "fault" => NextEdit' = NextEdit
  BY HistoryAssumption DEF EditTypes, Afford, NextEdit, Edits

\* The number of the next edit.
LEMMA NextEditInt == EditTypes => NextEdit \in Int /\ NextEdit > 0
  BY HistoryAssumption DEF EditTypes, NextEdit

\* A sequence of some lines is one of more lines.
LEMMA SeqGrows ==
  ASSUME NEW S, NEW T, S \subseteq T, NEW s \in Seq(S)
  PROVE  s \in Seq(T)
<1>1. Len(s) \in Nat /\ s \in [1..Len(s) -> T]
  BY LenProperties, ElementOfSeq
<1> QED
  BY <1>1, SeqDef

\* A process that does nothing.
LEMMA IdleType ==
  /\ AtRest \in Works /\ AtRest.at = "idle" /\ AtRest.on = "none"
  /\ \A S : AtRest.kept \in Seq(S) /\ AtRest.log \in Seq(S)
<1>1. \A S : <<>> \in Seq(S)
  BY EmptySeq
<1> QED
  BY <1>1 DEF AtRest, Works, Ats, Values

\* What a step makes of the work of one process.
LEMMA OneWorks ==
  ASSUME WorkTypes, NEW w \in Writers, NEW rec \in Works, work' = [work EXCEPT ![w] = rec],
         waiting' \in BOOLEAN,
         rec.at = "update" => rec.edit \in Edits,
         rec.at \in {"open", "flush"} => rec.log # <<>>,
         rec.at = "flush" => rec.on \in {"live", "gone"},
         rec.at = "writetmp" => rec.on \in {"live", "temp", "gone"},
         rec.at \notin {"flush", "writetmp"} => rec.on = "none"
  PROVE  WorkTypes' /\ work'[w] = rec /\ \A v \in Writers \ {w} : work'[v] = work[v]
<1>1. work' \in [Writers -> Works] /\ work'[w] = rec /\ \A v \in Writers \ {w} : work'[v] = work[v]
  BY DEF WorkTypes
<1>2. WorkInv'
  <2> SUFFICES ASSUME NEW v \in Writers
               PROVE  /\ work'[v].at = "update" => work'[v].edit \in Edits
                      /\ work'[v].at \in {"open", "flush"} => work'[v].log # <<>>
                      /\ work'[v].at = "flush" => work'[v].on \in {"live", "gone"}
                      /\ work'[v].at = "writetmp" => work'[v].on \in {"live", "temp", "gone"}
                      /\ work'[v].at \notin {"flush", "writetmp"} => work'[v].on = "none"
    BY DEF WorkInv
  <2>1. CASE v = w
    BY <1>1, <2>1
  <2>2. CASE v # w
    BY <1>1, <2>2 DEF WorkTypes, WorkInv
  <2> QED
    BY <2>1, <2>2
<1> QED
  BY <1>1, <1>2 DEF WorkTypes

\* Of its lines.
LEMMA OneLines ==
  ASSUME NEW S, NEW T, S \subseteq T, LinesIn(S), NEW w \in Writers,
         \A v \in Writers \ {w} : work'[v] = work[v],
         work'[w].kept \in Seq(T), work'[w].log \in Seq(T), live' \in Seq(T), temp' \in Seq(T)
  PROVE  LinesIn(T)'
<1> SUFFICES ASSUME NEW v \in Writers PROVE work'[v].kept \in Seq(T) /\ work'[v].log \in Seq(T)
  BY DEF LinesIn
<1>1. CASE v = w
  BY <1>1
<1>2. CASE v # w
  BY <1>2, SeqGrows DEF LinesIn
<1> QED
  BY <1>1, <1>2

\* The files and the work of the processes, for lines of any sort.
Stays(S) == LinesIn(S)' /\ WorkTypes'

\* An operation begins.
LEMMA BeginStays ==
  ASSUME NEW S, LinesIn(S), TypeInv, NEW w \in Writers, NEW rs \in SUBSET Records, Begin(w, rs)
  PROVE  /\ Stays(S)
         /\ work'[w].at = "update" /\ work'[w].edit = NextEdit /\ work'[w].todo = rs
         /\ \A v \in Writers \ {w} : work'[v] = work[v]
<1> DEFINE rec == [AtRest EXCEPT !.at = "update", !.edit = NextEdit, !.todo = rs]
<1>1. NextEdit \in Edits
  BY Spending DEF Begin, TypeInv
<1>2. /\ rec \in Works /\ rec.at = "update" /\ rec.edit = NextEdit /\ rec.todo = rs /\ rec.on = "none"
      /\ rec.kept = AtRest.kept /\ rec.log = AtRest.log
  BY <1>1, IdleType DEF Works, Ats, Values, AtRest
<1>3. work' = [work EXCEPT ![w] = rec] /\ UNCHANGED <<live, temp, waiting>> /\ waiting' \in BOOLEAN
  BY DEF Begin, fileVars, TypeInv, WorkTypes
<1> HIDE DEF rec
<1>4. WorkTypes' /\ work'[w] = rec /\ \A v \in Writers \ {w} : work'[v] = work[v]
  BY <1>1, <1>2, <1>3, OneWorks DEF TypeInv
<1>5. LinesIn(S)'
  BY <1>2, <1>3, <1>4, IdleType, OneLines DEF LinesIn
<1> QED
  BY <1>2, <1>4, <1>5 DEF Stays

\* A process is done, or gives up.
LEMMA IdleStays ==
  ASSUME NEW S, LinesIn(S), TypeInv, NEW w \in Writers, work' = [work EXCEPT ![w] = AtRest],
         live' \in Seq(S), temp' \in Seq(S), waiting' \in BOOLEAN
  PROVE  Stays(S) /\ work'[w] = AtRest /\ \A v \in Writers \ {w} : work'[v] = work[v]
<1>1. WorkTypes' /\ work'[w] = AtRest /\ \A v \in Writers \ {w} : work'[v] = work[v]
  BY IdleType, OneWorks DEF TypeInv
<1>2. LinesIn(S)'
  BY <1>1, IdleType, OneLines DEF LinesIn
<1> QED
  BY <1>1, <1>2 DEF Stays

\* A record is changed, or its change raises.
LEMMA UpdateStays ==
  ASSUME NEW S, NEW T, S \subseteq T, LinesIn(S), TypeInv, NEW w \in Writers, NEW r \in Records, Update(w, r),
         work'[w].log = work[w].log \/ <<work[w].edit, r>> \in T
  PROVE  /\ Stays(T) /\ work[w].edit \in Edits /\ <<work[w].edit, r>> \in Entries
         /\ work'[w].at = "update" => work'[w].edit = work[w].edit /\ work'[w].todo = work[w].todo \ {r}
         /\ \A v \in Writers \ {w} : work'[v] = work[v]
<1>1. /\ work[w] \in Works /\ work[w].edit \in Edits /\ <<work[w].edit, r>> \in Entries
      /\ work[w].log \in Seq(Entries) /\ work[w].on = "none" /\ work[w].todo \in SUBSET Records
  BY DEF Update, TypeInv, WorkTypes, WorkInv, Works, Entries
<1>2. PICK log \in Seq(Entries) :
        /\ log = work[w].log \/ log = Append(work[w].log, <<work[w].edit, r>>)
        /\ Onward(w, work[w].todo \ {r}, log)
  BY <1>1, AppendProperties DEF Update
<1>3. PICK rec \in Works :
        /\ rec.log = log /\ rec.todo = work[w].todo \ {r} /\ rec.edit = work[w].edit /\ rec.kept = work[w].kept
        /\ rec.on = "none" /\ rec.at \in {"update", "open", "idle"} /\ (rec.at = "open" => log # <<>>)
        /\ work' = [work EXCEPT ![w] = rec]
  <2> DEFINE at == IF work[w].todo \ {r} # {} THEN "update" ELSE IF log # <<>> THEN "open" ELSE "idle"
             rec == [work[w] EXCEPT !.todo = work[w].todo \ {r}, !.log = log, !.at = at]
  <2>1. /\ rec \in Works /\ rec.log = log /\ rec.todo = work[w].todo \ {r} /\ rec.edit = work[w].edit
        /\ rec.kept = work[w].kept /\ rec.on = work[w].on /\ rec.at = at
    BY <1>1 DEF Works, Ats, Appending
  <2>2. work' = [work EXCEPT ![w] = rec]
    BY <1>1, <1>2 DEF Onward
  <2> HIDE DEF rec
  <2> QED
    BY <1>1, <2>1, <2>2
<1>4. UNCHANGED <<live, temp, waiting>> /\ waiting' \in BOOLEAN
  BY DEF Update, fileVars, TypeInv, WorkTypes
<1>5. WorkTypes' /\ work'[w] = rec /\ \A v \in Writers \ {w} : work'[v] = work[v]
  BY <1>1, <1>3, <1>4, OneWorks DEF TypeInv
<1>6. work'[w].log \in Seq(T)
  <2>1. work[w].log \in Seq(T)
    BY SeqGrows DEF LinesIn
  <2>2. CASE log = work[w].log
    BY <1>3, <1>5, <2>1, <2>2
  <2>3. CASE log = Append(work[w].log, <<work[w].edit, r>>) /\ log # work[w].log
    <3>1. <<work[w].edit, r>> \in T
      BY <1>3, <1>5, <2>3
    <3>2. PICK x \in T : x = <<work[w].edit, r>>
      BY <3>1
    <3>3. Append(work[w].log, x) \in Seq(T)
      BY <2>1, AppendProperties
    <3> QED
      BY <1>3, <1>5, <2>3, <3>2, <3>3
  <2> QED
    BY <1>2, <2>2, <2>3
<1>7. LinesIn(T)'
  BY <1>3, <1>4, <1>5, <1>6, OneLines, SeqGrows DEF LinesIn
<1> QED
  BY <1>1, <1>3, <1>5, <1>7 DEF Stays

\* The same of every change of a record, for the lines of the log.
LEMMA UpdateGoes ==
  ASSUME TypeInv, NEW w \in Writers, NEW r \in Records, Update(w, r),
         work'[w].log = work[w].log \/ <<work[w].edit, r>> \in Lines
  PROVE  /\ work'[w].at = "update" => work'[w].edit = work[w].edit /\ work'[w].todo = work[w].todo \ {r}
         /\ \A v \in Writers \ {w} : work'[v] = work[v]
<1>1. PICK S : S = Lines
  OBVIOUS
<1>2. S \subseteq S
  OBVIOUS
<1>3. LinesIn(S)
  BY <1>1 DEF TypeInv
<1>4. work'[w].log = work[w].log \/ <<work[w].edit, r>> \in S
  BY <1>1
<1> QED
  BY <1>2, <1>3, <1>4, UpdateStays

\* The file is opened.
LEMMA OpenLogStays ==
  ASSUME NEW S, LinesIn(S), TypeInv, NEW w \in Writers, OpenLog(w)
  PROVE  Stays(S) /\ work'[w].at = "flush" /\ \A v \in Writers \ {w} : work'[v] = work[v]
<1>1. work[w] \in Works /\ work[w].log # <<>>
  BY DEF OpenLog, TypeInv, WorkTypes, WorkInv
<1>2. PICK rec \in Works :
        /\ rec.at = "flush" /\ rec.on = "live" /\ rec.log = work[w].log /\ rec.kept = work[w].kept
        /\ work' = [work EXCEPT ![w] = rec]
  <2> DEFINE rec == [work[w] EXCEPT !.at = "flush", !.on = "live"]
  <2>1. rec \in Works /\ rec.at = "flush" /\ rec.on = "live" /\ rec.log = work[w].log /\ rec.kept = work[w].kept
    BY <1>1 DEF Works, Ats, Appending
  <2>2. work' = [work EXCEPT ![w] = rec]
    BY <1>1 DEF OpenLog
  <2> QED
    BY <2>1, <2>2
<1>3. UNCHANGED <<live, temp, waiting>> /\ waiting' \in BOOLEAN
  BY DEF OpenLog, fileVars, TypeInv, WorkTypes
<1>4. WorkTypes' /\ work'[w] = rec /\ \A v \in Writers \ {w} : work'[v] = work[v]
  BY <1>1, <1>2, <1>3, OneWorks DEF TypeInv
<1>5. LinesIn(S)'
  BY <1>2, <1>3, <1>4, OneLines DEF LinesIn
<1> QED
  BY <1>2, <1>4, <1>5 DEF Stays

\* The next entry is written.
LEMMA FlushStays ==
  ASSUME NEW S, Torn \in S, Cut \in S, LinesIn(S), TypeInv, NEW w \in Writers, Flush(w)
  PROVE  /\ Stays(S) /\ work'[w].at \in {"flush", "read"} /\ \A v \in Writers \ {w} : work'[v] = work[v]
         /\ Head(work[w].log) \in Entries
<1>1. work[w] \in Works /\ work[w].log # <<>> /\ work[w].on \in {"live", "gone"} /\ work[w].at = "flush"
  BY DEF Flush, TypeInv, WorkTypes, WorkInv
<1>2. /\ Head(work[w].log) \in Entries /\ Head(work[w].log) \in S /\ <<Head(work[w].log)>> \in Seq(S)
      /\ Tail(work[w].log) \in Seq(S) /\ Tail(work[w].log) \in Seq(Entries)
      /\ Len(work[w].log) # 1 => Tail(work[w].log) # <<>>
  <2>1. work[w].log \in Seq(S) /\ work[w].log \in Seq(Entries)
    BY <1>1 DEF LinesIn, Works
  <2>2. /\ Head(work[w].log) \in Entries /\ Head(work[w].log) \in S
        /\ Tail(work[w].log) \in Seq(S) /\ Tail(work[w].log) \in Seq(Entries)
        /\ Len(Tail(work[w].log)) = Len(work[w].log) - 1 /\ Len(work[w].log) \in Nat \ {0}
    BY <1>1, <2>1, HeadTailProperties, EmptySeq
  <2>3. <<Head(work[w].log)>> \in Seq(S)
    BY <2>2
  <2>4. PICK t \in Seq(S) : t = Tail(work[w].log)
    BY <2>2
  <2>5. Len(work[w].log) # 1 => Len(t) # 0
    BY <2>2, <2>4
  <2>6. t = <<>> => Len(t) = 0
    BY EmptySeq
  <2> QED
    BY <2>2, <2>3, <2>4, <2>5, <2>6
<1>3. PICK rec \in Works :
        /\ rec.at \in {"flush", "read"} /\ rec.log \in Seq(S) /\ rec.kept = work[w].kept
        /\ rec.at = "flush" => rec.log # <<>> /\ rec.on \in {"live", "gone"}
        /\ rec.at = "read" => rec.on = "none"
        /\ work' = [work EXCEPT ![w] = rec]
  <2>1. CASE Len(work[w].log) = 1
    <3> DEFINE rec == [work[w] EXCEPT !.log = <<>>, !.on = "none", !.at = "read"]
    <3>1. /\ rec \in Works /\ rec.at = "read" /\ rec.on = "none" /\ rec.log = <<>>
          /\ rec.kept = work[w].kept /\ <<>> \in Seq(S)
      BY <1>1, EmptySeq DEF Works, Ats, Appending
    <3>2. work' = [work EXCEPT ![w] = rec]
      BY <1>1, <2>1 DEF Flush
    <3> QED
      BY <3>1, <3>2
  <2>2. CASE Len(work[w].log) # 1
    <3> DEFINE rec == [work[w] EXCEPT !.log = Tail(@)]
    <3>1. /\ rec \in Works /\ rec.at = "flush" /\ rec.on = work[w].on /\ rec.log = Tail(work[w].log)
          /\ rec.kept = work[w].kept
      BY <1>1, <1>2 DEF Works
    <3>2. work' = [work EXCEPT ![w] = rec]
      BY <1>1, <2>2 DEF Flush
    <3> QED
      BY <1>1, <1>2, <2>2, <3>1, <3>2
  <2> QED
    BY <2>1, <2>2
<1>4. UNCHANGED <<temp, waiting>> /\ waiting' \in BOOLEAN /\ temp \in Seq(S) /\ live \in Seq(S)
  BY DEF Flush, TypeInv, WorkTypes, LinesIn
<1>5. live' \in Seq(S)
  BY <1>2, <1>4, GlueType DEF Flush, Flushed
<1>6. WorkTypes' /\ work'[w] = rec /\ \A v \in Writers \ {w} : work'[v] = work[v]
  BY <1>1, <1>3, <1>4, OneWorks DEF TypeInv
<1>7. LinesIn(S)'
  BY <1>3, <1>4, <1>5, <1>6, OneLines DEF LinesIn
<1> QED
  BY <1>2, <1>3, <1>6, <1>7 DEF Stays

\* The next entry is cut.
LEMMA FlushFailsStays ==
  ASSUME NEW S, Torn \in S, Cut \in S, LinesIn(S), TypeInv, NEW w \in Writers, FlushFails(w)
  PROVE  /\ Stays(S) /\ work'[w] = AtRest /\ \A v \in Writers \ {w} : work'[v] = work[v]
         /\ Head(work[w].log) \in Entries
<1>1. work[w].log \in Seq(Entries) /\ work[w].log # <<>>
  BY DEF FlushFails, TypeInv, WorkTypes, WorkInv, Works
<1>2. <<Cut>> \in Seq(S) /\ waiting' \in BOOLEAN /\ temp' \in Seq(S) /\ live \in Seq(S)
  BY DEF FlushFails, TypeInv, WorkTypes, LinesIn
<1>3. live' \in Seq(S)
  BY <1>2, GlueType DEF FlushFails
<1> QED
  BY <1>1, <1>2, <1>3, IdleStays, HeadTailProperties DEF FlushFails

\* The file is read back.
LEMMA ReadStays ==
  ASSUME NEW S, Torn \in S, LinesIn(S), TypeInv, NEW w \in Writers, Read(w)
  PROVE  /\ Stays(S) /\ \A v \in Writers \ {w} : work'[v] = work[v]
         /\ \/ work'[w].at = "opentmp" /\ work'[w].kept = Ended(Newest(live, HistoryKeep))
            \/ work'[w] = AtRest
<1>1. UNCHANGED <<live, temp, waiting>> /\ waiting' \in BOOLEAN /\ temp' \in Seq(S) /\ live' \in Seq(S)
  BY DEF Read, TypeInv, WorkTypes, LinesIn
<1>2. CASE work' = [work EXCEPT ![w] = AtRest]
  BY <1>1, <1>2, IdleStays
<1>3. CASE work' # [work EXCEPT ![w] = AtRest]
  <2> DEFINE rec == [AtRest EXCEPT !.at = "opentmp", !.kept = Ended(Newest(live, HistoryKeep))]
  <2>1. /\ Ended(Newest(live, HistoryKeep)) \in Seq(S) /\ Ended(Newest(live, HistoryKeep)) \in Seq(Lines)
    BY NewestType, EndedType, HistoryAssumption, LineFacts DEF LinesIn, TypeInv
  <2>2. /\ rec \in Works /\ rec.at = "opentmp" /\ rec.on = "none" /\ rec.log = AtRest.log
        /\ rec.kept = Ended(Newest(live, HistoryKeep))
    BY <2>1, IdleType DEF Works, Ats, Trims, AtRest
  <2>3. work' = [work EXCEPT ![w] = rec]
    BY <1>3 DEF Read
  <2> HIDE DEF rec
  <2>4. WorkTypes' /\ work'[w] = rec /\ \A v \in Writers \ {w} : work'[v] = work[v]
    BY <1>1, <2>2, <2>3, OneWorks DEF TypeInv
  <2>5. LinesIn(S)'
    BY <1>1, <2>1, <2>2, <2>4, IdleType, OneLines DEF LinesIn
  <2> QED
    BY <2>2, <2>4, <2>5 DEF Stays
<1> QED
  BY <1>2, <1>3

\* The temporary file is opened.
LEMMA OpenTmpStays ==
  ASSUME NEW S, LinesIn(S), TypeInv, NEW w \in Writers, OpenTmp(w)
  PROVE  /\ Stays(S) /\ work'[w].at = "writetmp" /\ work'[w].on = "temp" /\ work'[w].kept = work[w].kept
         /\ \A v \in Writers \ {w} : work'[v] = work[v]
<1>1. work[w] \in Works /\ waiting' \in BOOLEAN /\ live' = live /\ temp' = <<>> /\ <<>> \in Seq(S)
  BY EmptySeq DEF OpenTmp, TypeInv, WorkTypes
<1>2. PICK rec \in Works :
        /\ rec.at = "writetmp" /\ rec.on = "temp" /\ rec.log = work[w].log /\ rec.kept = work[w].kept
        /\ work' = [work EXCEPT ![w] = rec]
  <2> DEFINE rec == [work[w] EXCEPT !.at = "writetmp", !.on = "temp"]
  <2>1. /\ rec \in Works /\ rec.at = "writetmp" /\ rec.on = "temp" /\ rec.log = work[w].log
        /\ rec.kept = work[w].kept
    BY <1>1 DEF Works, Ats, Trims
  <2>2. work' = [work EXCEPT ![w] = rec]
    BY <1>1 DEF OpenTmp
  <2> QED
    BY <2>1, <2>2
<1>3. WorkTypes' /\ work'[w] = rec /\ \A v \in Writers \ {w} : work'[v] = work[v]
  BY <1>1, <1>2, OneWorks DEF TypeInv
<1>4. LinesIn(S)'
  BY <1>1, <1>2, <1>3, OneLines DEF LinesIn
<1> QED
  BY <1>2, <1>3, <1>4 DEF Stays

\* What is put into the file that is open.
LEMMA PutLines ==
  ASSUME NEW S, Torn \in S, Cut \in S, LinesIn(S), NEW w \in Writers, NEW new \in Seq(S), Put(w, new)
  PROVE  live' \in Seq(S) /\ temp' \in Seq(S)
  BY OverType DEF Put, LinesIn

\* The lines are written to the temporary file.
LEMMA WriteTmpStays ==
  ASSUME NEW S, Torn \in S, Cut \in S, LinesIn(S), TypeInv, NEW w \in Writers, WriteTmp(w)
  PROVE  Stays(S) /\ work'[w].at = "replace" /\ \A v \in Writers \ {w} : work'[v] = work[v]
<1> DEFINE rec == [AtRest EXCEPT !.at = "replace"]
<1>1. waiting' \in BOOLEAN /\ live' \in Seq(S) /\ temp' \in Seq(S)
  BY PutLines DEF WriteTmp, TypeInv, WorkTypes, LinesIn
<1>2. rec \in Works /\ rec.at = "replace" /\ rec.on = "none" /\ rec.log = AtRest.log /\ rec.kept = AtRest.kept
  BY IdleType DEF Works, Ats, Trims, AtRest
<1>3. work' = [work EXCEPT ![w] = rec]
  BY DEF WriteTmp
<1> HIDE DEF rec
<1>4. WorkTypes' /\ work'[w] = rec /\ \A v \in Writers \ {w} : work'[v] = work[v]
  BY <1>1, <1>2, <1>3, OneWorks DEF TypeInv
<1>5. LinesIn(S)'
  BY <1>1, <1>2, <1>4, IdleType, OneLines
<1> QED
  BY <1>2, <1>4, <1>5 DEF Stays

\* A part of them is.
LEMMA WriteTmpFailsStays ==
  ASSUME NEW S, Torn \in S, Cut \in S, LinesIn(S), TypeInv, NEW w \in Writers, WriteTmpFails(w)
  PROVE  Stays(S) /\ work'[w] = AtRest /\ \A v \in Writers \ {w} : work'[v] = work[v]
<1>1. PICK n \in 1..Len(work[w].kept) : Put(w, Append(SubSeq(work[w].kept, 1, n - 1), Cut))
  BY DEF WriteTmpFails
<1>2. work[w].kept \in Seq(S) /\ Len(work[w].kept) \in Nat
  BY LenProperties DEF LinesIn
<1>3. SubSeq(work[w].kept, 1, n - 1) \in Seq(S)
  BY <1>2, PartType
<1>4. Append(SubSeq(work[w].kept, 1, n - 1), Cut) \in Seq(S)
  BY <1>3, AppendProperties
<1>5. live' \in Seq(S) /\ temp' \in Seq(S) /\ waiting' \in BOOLEAN
  BY <1>1, <1>4, PutLines DEF WriteTmpFails, TypeInv, WorkTypes
<1> QED
  BY <1>5, IdleStays DEF WriteTmpFails

\* The temporary file takes the place of the history.
LEMMA ReplaceStays ==
  ASSUME NEW S, LinesIn(S), TypeInv, NEW w \in Writers, Replace(w)
  PROVE  /\ Stays(S) /\ work'[w] = AtRest
         /\ \A v \in Writers \ {w} : /\ work'[v].at = work[v].at /\ work'[v].edit = work[v].edit
                                     /\ work'[v].todo = work[v].todo /\ work'[v].kept = work[v].kept
<1>1. CASE ~waiting
  <2>1. work' = [work EXCEPT ![w] = AtRest] /\ UNCHANGED <<live, temp, waiting>>
    BY <1>1 DEF Replace
  <2>2. live' \in Seq(S) /\ temp' \in Seq(S) /\ waiting' \in BOOLEAN
    BY <2>1 DEF LinesIn, TypeInv, WorkTypes
  <2> QED
    BY <2>1, <2>2, IdleStays
<1>2. CASE waiting
  <2>1. /\ live' = temp /\ temp' = <<>> /\ waiting' = FALSE
        /\ work' = [v \in Writers |-> IF v = w THEN AtRest ELSE [work[v] EXCEPT !.on = Renamed(@)]]
    BY <1>2 DEF Replace
  <2>2. work'[w] = AtRest
    BY <2>1
  <2>3. ASSUME NEW v \in Writers \ {w}
        PROVE  /\ work'[v] \in Works /\ work'[v].at = work[v].at /\ work'[v].edit = work[v].edit
               /\ work'[v].todo = work[v].todo /\ work'[v].kept = work[v].kept /\ work'[v].log = work[v].log
               /\ work'[v].on = Renamed(work[v].on)
    <3>1. work[v] \in Works /\ work'[v] = [work[v] EXCEPT !.on = Renamed(work[v].on)]
      BY <2>1 DEF TypeInv, WorkTypes
    <3>2. Renamed(work[v].on) \in {"none", "live", "temp", "gone"}
      BY <3>1 DEF Renamed, Works
    <3> QED
      BY <3>1, <3>2 DEF Works
  <2>4. work' \in [Writers -> Works]
    <3>1. \A v \in Writers : work'[v] \in Works
      BY <2>2, <2>3, IdleType
    <3> QED
      BY <2>1, <3>1
  <2>5. WorkInv'
    <3> SUFFICES ASSUME NEW v \in Writers
                 PROVE  /\ work'[v].at = "update" => work'[v].edit \in Edits
                        /\ work'[v].at \in {"open", "flush"} => work'[v].log # <<>>
                        /\ work'[v].at = "flush" => work'[v].on \in {"live", "gone"}
                        /\ work'[v].at = "writetmp" => work'[v].on \in {"live", "temp", "gone"}
                        /\ work'[v].at \notin {"flush", "writetmp"} => work'[v].on = "none"
      BY DEF WorkInv
    <3>1. CASE v = w
      BY <2>2, <3>1, IdleType
    <3>2. CASE v # w
      BY <2>3, <3>2 DEF TypeInv, WorkTypes, WorkInv, Renamed
    <3> QED
      BY <3>1, <3>2
  <2>6. LinesIn(S)'
    <3>1. live' \in Seq(S) /\ temp' \in Seq(S)
      BY <2>1, EmptySeq DEF LinesIn
    <3>2. \A v \in Writers : work'[v].kept \in Seq(S) /\ work'[v].log \in Seq(S)
      BY <2>2, <2>3, IdleType DEF LinesIn
    <3> QED
      BY <3>1, <3>2 DEF LinesIn
  <2>7. waiting' \in BOOLEAN
    BY <2>1, Zenon
  <2> QED
    BY <2>2, <2>3, <2>4, <2>5, <2>6, <2>7 DEF Stays, WorkTypes
<1> QED
  BY <1>1, <1>2

\* A process gives up.
LEMMA GiveUpStays ==
  ASSUME NEW S, LinesIn(S), TypeInv, NEW w \in Writers, GiveUp(w)
  PROVE  Stays(S) /\ work'[w] = AtRest /\ \A v \in Writers \ {w} : work'[v] = work[v]
<1>1. live' \in Seq(S) /\ temp' \in Seq(S) /\ waiting' \in BOOLEAN /\ work' = [work EXCEPT ![w] = AtRest]
  BY DEF GiveUp, fileVars, LinesIn, TypeInv, WorkTypes
<1> QED
  BY <1>1, IdleStays

\* The steps that write to the file, or to its copy.
FileSteps(w) ==
  OpenLog(w) \/ Flush(w) \/ Read(w) \/ OpenTmp(w) \/ WriteTmp(w) \/ Replace(w)
  \/ FlushFails(w) \/ WriteTmpFails(w) \/ GiveUp(w)

\* Each leaves the lines as they were, some torn.
LEMMA FileStays ==
  ASSUME NEW S, Torn \in S, Cut \in S, LinesIn(S), TypeInv, NEW w \in Writers, FileSteps(w)
  PROVE  /\ Stays(S) /\ work'[w].at # "update"
         /\ \A v \in Writers \ {w} : /\ work'[v].at = work[v].at /\ work'[v].edit = work[v].edit
                                     /\ work'[v].todo = work[v].todo
         /\ UNCHANGED editVars /\ NextEdit' = NextEdit
<1>1. UNCHANGED editVars
  BY DEF FileSteps, OpenLog, Flush, Read, OpenTmp, WriteTmp, Replace, FlushFails, WriteTmpFails, GiveUp
<1>2. NextEdit' = NextEdit
  <2>1. CASE FlushFails(w) \/ WriteTmpFails(w) \/ GiveUp(w)
    BY <2>1, Spending DEF FlushFails, WriteTmpFails, GiveUp, TypeInv
  <2>2. CASE UNCHANGED budget
    BY <2>2 DEF NextEdit
  <2> QED
    BY <2>1, <2>2 DEF FileSteps, OpenLog, Flush, Read, OpenTmp, WriteTmp, Replace
<1>3. /\ Stays(S) /\ work'[w].at # "update"
      /\ \A v \in Writers \ {w} : /\ work'[v].at = work[v].at /\ work'[v].edit = work[v].edit
                                  /\ work'[v].todo = work[v].todo
  BY OpenLogStays, FlushStays, ReadStays, OpenTmpStays, WriteTmpStays, ReplaceStays, FlushFailsStays,
     WriteTmpFailsStays, GiveUpStays, IdleType DEF FileSteps
<1> QED
  BY <1>1, <1>2, <1>3

\* What the steps of the edits do to them.
LEMMA EditEdits ==
  ASSUME TypeInv, NEW r \in Records, Edit(r)
  PROVE  /\ value' = [value EXCEPT ![r] = NextEdit] /\ NextEdit \in Edits /\ NextEdit' = NextEdit + 1
         /\ crossed' = crossed \cup {<<work[v].edit, r>> : v \in Updating(r)}
         /\ UNCHANGED <<previous, replaced, work, live, temp, waiting, written, risked>>
         /\ EditTypes'
<1>1. /\ value' = [value EXCEPT ![r] = NextEdit]
      /\ crossed' = crossed \cup {<<work[v].edit, r>> : v \in Updating(r)}
      /\ UNCHANGED <<previous, replaced, work, live, temp, waiting, written, risked>>
  BY DEF Edit, Write, fileVars
<1>2. NextEdit \in Edits /\ NextEdit' = NextEdit + 1 /\ budget' \in [edit : 0..MaxEdits, fault : Nat]
  BY Spending DEF Edit, TypeInv
<1>3. \A v \in Updating(r) : <<work[v].edit, r>> \in Entries
  BY DEF Updating, TypeInv, WorkTypes, WorkInv, Entries
<1>4. value' \in [Records -> Values]
  BY <1>1, <1>2 DEF TypeInv, EditTypes, Values
<1>5. crossed' \subseteq Entries
  BY <1>1, <1>3 DEF TypeInv, EditTypes
<1> QED
  BY <1>1, <1>2, <1>4, <1>5 DEF TypeInv, EditTypes

LEMMA BeginEdits ==
  ASSUME TypeInv, NEW w \in Writers, NEW rs \in SUBSET Records, Begin(w, rs)
  PROVE  /\ NextEdit \in Edits /\ NextEdit' = NextEdit + 1
         /\ \A x \in Entries : previous'[x] = IF x[1] = NextEdit THEN value[x[2]] ELSE previous[x]
         /\ UNCHANGED <<value, replaced, crossed, live, temp, waiting, written, risked>>
         /\ EditTypes'
<1>1. NextEdit \in Edits /\ NextEdit' = NextEdit + 1 /\ budget' \in [edit : 0..MaxEdits, fault : Nat]
  BY Spending DEF Begin, TypeInv
<1>2. /\ previous' = [x \in Entries |-> IF x[1] = NextEdit THEN value[x[2]] ELSE previous[x]]
      /\ UNCHANGED <<value, replaced, crossed, live, temp, waiting, written, risked>>
  BY DEF Begin, fileVars
<1>3. previous' \in [Entries -> Values]
  BY <1>2, LineFacts DEF TypeInv, EditTypes
<1> QED
  BY <1>1, <1>2, <1>3 DEF TypeInv, EditTypes

LEMMA UpdateEdits ==
  ASSUME TypeInv, NEW w \in Writers, NEW r \in Records, Update(w, r)
  PROVE  /\ r \in work[w].todo /\ work[w].at = "update" /\ NextEdit' = NextEdit
         /\ UNCHANGED <<previous, live, temp, waiting, written, risked>>
         /\ \/ /\ value' = [value EXCEPT ![r] = work[w].edit]
               /\ crossed' = crossed \cup {<<work[v].edit, r>> : v \in Updating(r) \ {w}}
               /\ replaced' = [replaced EXCEPT ![<<work[w].edit, r>>] = value[r]]
            \/ UNCHANGED <<value, crossed, replaced>> /\ work'[w].log = work[w].log
         /\ EditTypes'
<1>1. /\ r \in work[w].todo /\ work[w].at = "update" /\ work[w].edit \in Edits /\ work[w] \in Works
      /\ <<work[w].edit, r>> \in Entries
  BY UpdateStays DEF Update, TypeInv, WorkTypes, WorkInv, Works, Entries
<1>2. UNCHANGED <<previous, live, temp, waiting, written, risked, budget>> /\ NextEdit' = NextEdit
  BY DEF Update, fileVars, NextEdit
<1>3. \A v \in Updating(r) : <<work[v].edit, r>> \in Entries
  BY DEF Updating, TypeInv, WorkTypes, WorkInv, Entries
<1>4. CASE Write(r, work[w].edit, Updating(r) \ {w}) /\ replaced' = [replaced EXCEPT ![<<work[w].edit, r>>] = value[r]]
  <2>1. /\ value' = [value EXCEPT ![r] = work[w].edit]
        /\ crossed' = crossed \cup {<<work[v].edit, r>> : v \in Updating(r) \ {w}}
    BY <1>4 DEF Write
  <2>2. value' \in [Records -> Values] /\ crossed' \subseteq Entries
    BY <1>1, <1>3, <2>1 DEF TypeInv, EditTypes, Values
  <2>3. replaced' \in [Entries -> Values]
    BY <1>1, <1>4 DEF TypeInv, EditTypes
  <2> QED
    BY <1>1, <1>2, <1>4, <2>1, <2>2, <2>3 DEF TypeInv, EditTypes
<1>5. CASE Onward(w, work[w].todo \ {r}, work[w].log) /\ UNCHANGED <<value, crossed, replaced>>
  <2>1. work'[w].log = work[w].log
    BY <1>1, <1>5 DEF Onward, TypeInv, WorkTypes, Works
  <2> QED
    BY <1>1, <1>2, <1>5, <2>1 DEF TypeInv, EditTypes
<1> QED
  BY <1>4, <1>5 DEF Update

\* What was written, and what runs a risk, only grows.
LEMMA NotesGrow ==
  ASSUME TypeInv, NEW w \in Writers, FileSteps(w)
  PROVE  /\ NoteTypes' /\ risked \subseteq risked'
         /\ \/ written' = written
            \/ \E x \in Entries : written' = Append(written, x)
<1>1. CASE Flush(w)
  <2>1. PICK x \in Entries : x = Head(work[w].log)
    BY <1>1, FlushStays, LineFacts DEF TypeInv
  <2>2. written' = Append(written, x) /\ risked' \in {risked, risked \cup {x}}
    BY <1>1, <2>1 DEF Flush, Flushed
  <2> QED
    BY <2>2, AppendProperties DEF TypeInv, NoteTypes
<1>2. CASE FlushFails(w)
  <2>1. PICK x \in Entries : x = Head(work[w].log)
    BY <1>2, FlushFailsStays, LineFacts DEF TypeInv
  <2>2. written' = Append(written, x) /\ risked' = risked \cup {x}
    BY <1>2, <2>1 DEF FlushFails
  <2> QED
    BY <2>2, AppendProperties DEF TypeInv, NoteTypes
<1>3. CASE Read(w)
  <2>1. written' = written /\ risked' \in {risked, risked \cup {written[i] : i \in DOMAIN written}}
    BY <1>3 DEF Read
  <2>2. \A i \in DOMAIN written : written[i] \in Entries
    BY LenProperties, ElementOfSeq DEF TypeInv, NoteTypes
  <2> QED
    BY <2>1, <2>2 DEF TypeInv, NoteTypes
<1>4. CASE UNCHANGED <<written, risked>>
  BY <1>4 DEF TypeInv, NoteTypes
<1> QED
  BY <1>1, <1>2, <1>3, <1>4
  DEF FileSteps, OpenLog, OpenTmp, WriteTmp, Replace, WriteTmpFails, GiveUp, fileVars

\* The history begins well formed.
LEMMA TypeInit == HistoryInit => TypeInv
<1> SUFFICES ASSUME HistoryInit PROVE TypeInv
  OBVIOUS
<1>1. EditTypes
  BY HistoryAssumption, LineFacts DEF HistoryInit, EditTypes, Values
<1>2. NoteTypes
  BY EmptySeq DEF HistoryInit, NoteTypes
<1>3. work \in [Writers -> Works] /\ \A w \in Writers : work[w] = AtRest
  BY IdleType DEF HistoryInit
<1>4. waiting \in BOOLEAN
  BY Zenon DEF HistoryInit
<1>5. WorkTypes
  BY <1>3, <1>4, IdleType DEF WorkTypes, WorkInv
<1>6. LinesIn(Lines)
  BY <1>3, IdleType, EmptySeq DEF HistoryInit, LinesIn
<1> QED
  BY <1>1, <1>2, <1>5, <1>6 DEF TypeInv

\* Every step leaves it well formed.
LEMMA TypeStep == TypeInv /\ [HistoryNext]_historyVars => TypeInv'
<1> SUFFICES ASSUME TypeInv, [HistoryNext]_historyVars PROVE TypeInv'
  OBVIOUS
<1> USE LineFacts
<1>1. UNCHANGED <<written, risked>> => NoteTypes'
  BY DEF TypeInv, NoteTypes
<1>2. UNCHANGED <<work, waiting>> => WorkTypes'
  BY DEF TypeInv, WorkTypes, WorkInv
<1>3. UNCHANGED <<work, live, temp>> => LinesIn(Lines)'
  BY DEF TypeInv, LinesIn
<1>4. ASSUME NEW r \in Records, Edit(r) PROVE TypeInv'
  BY <1>1, <1>2, <1>3, <1>4, EditEdits DEF TypeInv
<1>5. ASSUME NEW w \in Writers, NEW rs \in SUBSET Records, Begin(w, rs) PROVE TypeInv'
  <2>1. Stays(Lines)
    BY <1>5, BeginStays DEF TypeInv
  <2> QED
    BY <1>1, <1>5, <2>1, BeginEdits DEF TypeInv, Stays
<1>6. ASSUME NEW w \in Writers, NEW r \in Records, Update(w, r) PROVE TypeInv'
  <2>1. <<work[w].edit, r>> \in Lines
    BY <1>6 DEF Update, TypeInv, WorkTypes, WorkInv, Entries, Lines
  <2>2. Stays(Lines)
    BY <1>6, <2>1, UpdateStays DEF TypeInv
  <2> QED
    BY <1>1, <1>6, <2>2, UpdateEdits DEF TypeInv, Stays
<1>7. ASSUME NEW w \in Writers, FileSteps(w) PROVE TypeInv'
  <2>1. Stays(Lines) /\ UNCHANGED editVars /\ NoteTypes'
    BY <1>7, FileStays, NotesGrow DEF TypeInv
  <2>2. budget' \in [edit : 0..MaxEdits, fault : Nat]
    <3>1. CASE FlushFails(w) \/ WriteTmpFails(w) \/ GiveUp(w)
      BY <3>1, Spending DEF FlushFails, WriteTmpFails, GiveUp, TypeInv
    <3>2. CASE UNCHANGED budget
      BY <3>2 DEF TypeInv, EditTypes
    <3> QED
      BY <1>7, <3>1, <3>2 DEF FileSteps, OpenLog, Flush, Read, OpenTmp, WriteTmp, Replace
  <2> QED
    BY <2>1, <2>2 DEF TypeInv, EditTypes, editVars, Stays
<1>8. CASE UNCHANGED historyVars
  BY <1>1, <1>2, <1>3, <1>8 DEF historyVars, editVars, fileVars, TypeInv, EditTypes
<1> QED
  BY <1>4, <1>5, <1>6, <1>7, <1>8 DEF HistoryNext, FileSteps

-----------------------------------------------------------------------------
(* What can be undone.                                                     *)

\* What an entry says stays true.
LEMMA GoodGrows ==
  ASSUME TypeInv, NextEdit <= NextEdit', NextEdit' \in Int, crossed \subseteq crossed',
         \A x \in Entries : x[1] < NextEdit =>
           /\ previous'[x] = previous[x]
           /\ \/ replaced'[x] = replaced[x]
              \/ replaced'[x] # x[1] /\ (x \in crossed' \/ previous'[x] = replaced'[x])
  PROVE  Good \subseteq Good'
<1> SUFFICES ASSUME NEW x \in Entries, Kept(x) PROVE Kept(x)'
  BY DEF Good, Kept
<1>1. x[1] \in Int /\ NextEdit \in Int /\ x[1] < NextEdit
  BY NextEditInt, LineFacts DEF Kept, TypeInv, Edits
<1>2. x[1] < NextEdit'
  BY <1>1
<1>3. replaced'[x] # x[1] /\ (x \in crossed' \/ previous'[x] = replaced'[x])
  BY <1>1 DEF Kept
<1> QED
  BY <1>2, <1>3 DEF Kept

\* Both are sets of lines, with what cannot be read.
LEMMA GoodLines == Torn \in Good /\ Cut \in Good /\ Torn \in Good' /\ Cut \in Good'
  BY LineFacts DEF Good, Kept

\* An edit under way has read what it will replace.
Reads(w) ==
  work[w].at = "update" =>
    /\ work[w].edit < NextEdit
    /\ \A r \in work[w].todo :
         /\ value[r] # work[w].edit
         /\ <<work[w].edit, r>> \in crossed \/ previous[<<work[w].edit, r>>] = value[r]

\* What a process that is updating is about.
LEMMA UpdatingFacts ==
  ASSUME TypeInv, NEW w \in Writers, work[w].at = "update"
  PROVE  /\ work[w].edit \in Edits /\ work[w].edit \in Int /\ work[w].todo \subseteq Records
         /\ \A r \in work[w].todo : <<work[w].edit, r>> \in Entries
  BY DEF TypeInv, WorkTypes, WorkInv, Works, Entries, Edits

\* A direct edit.
LEMMA EditUndo ==
  ASSUME TypeInv, UndoInv, NEW r \in Records, Edit(r)
  PROVE  UndoInv'
<1>1. PICK e \in Edits :
        /\ e = NextEdit /\ NextEdit' = e + 1 /\ value' = [value EXCEPT ![r] = e]
        /\ crossed' = crossed \cup {<<work[v].edit, r>> : v \in Updating(r)}
        /\ UNCHANGED <<previous, replaced, work, live, temp>>
  BY EditEdits
<1>2. value \in [Records -> Values] /\ \A q \in Records : value[q] \in Int /\ value[q] < e
  BY <1>1 DEF TypeInv, EditTypes, UndoInv, Values, Edits, NoEdit
<1>3. \A q \in Records : value'[q] < NextEdit'
  BY <1>1, <1>2 DEF Edits
<1>4. ASSUME NEW w \in Writers PROVE Reads(w)'
  <2>1. CASE work[w].at = "update"
    <3>1. work[w].edit \in Int /\ work[w].edit < e /\ work[w].todo \subseteq Records
      BY <1>1, <2>1, UpdatingFacts DEF UndoInv
    <3>2. ASSUME NEW q \in work[w].todo
          PROVE  /\ value'[q] # work[w].edit
                 /\ <<work[w].edit, q>> \in crossed' \/ previous[<<work[w].edit, q>>] = value'[q]
      <4>1. CASE q = r
        <5>1. w \in Updating(r)
          BY <2>1, <4>1 DEF Updating
        <5>2. <<work[w].edit, r>> \in crossed'
          BY <1>1, <5>1
        <5>3. value'[r] = e
          BY <1>1, <1>2
        <5> QED
          BY <3>1, <4>1, <5>2, <5>3 DEF Edits
      <4>2. CASE q # r
        <5>1. value'[q] = value[q]
          BY <1>1, <1>2, <3>1, <4>2
        <5>2. value[q] # work[w].edit /\ (<<work[w].edit, q>> \in crossed \/ previous[<<work[w].edit, q>>] = value[q])
          BY <2>1 DEF UndoInv
        <5> QED
          BY <1>1, <5>1, <5>2
      <4> QED
        BY <4>1, <4>2
    <3> QED
      BY <1>1, <3>1, <3>2 DEF Reads, Edits
  <2>2. CASE work[w].at # "update"
    BY <1>1, <2>2 DEF Reads
  <2> QED
    BY <2>1, <2>2
<1>5. LinesIn(Good)'
  <2>1. PICK G : G = Good
    OBVIOUS
  <2>2. PICK H : H = Good'
    OBVIOUS
  <2>3. G \subseteq H
    <3>1. NextEdit <= NextEdit' /\ NextEdit' \in Int /\ crossed \subseteq crossed'
      BY <1>1 DEF Edits
    <3> QED
      BY <1>1, <2>1, <2>2, <3>1, GoodGrows
  <2>4. LinesIn(G)
    BY <2>1 DEF UndoInv
  <2>5. LinesIn(H)'
    BY <1>1, <2>3, <2>4, SeqGrows DEF LinesIn
  <2> QED
    BY <2>2, <2>5 DEF LinesIn
<1>6. \A v, w \in Writers : v # w /\ work'[v].at = "update" /\ work'[w].at = "update" =>
        work'[v].edit # work'[w].edit
  BY <1>1 DEF UndoInv
<1> QED
  BY <1>3, <1>4, <1>5, <1>6 DEF UndoInv, Reads

\* An operation reads what the records hold.
LEMMA BeginUndo ==
  ASSUME TypeInv, UndoInv, NEW w \in Writers, NEW rs \in SUBSET Records, Begin(w, rs)
  PROVE  UndoInv'
<1>1. PICK e \in Edits :
        /\ e = NextEdit /\ NextEdit' = e + 1
        /\ \A x \in Entries : previous'[x] = IF x[1] = e THEN value[x[2]] ELSE previous[x]
        /\ UNCHANGED <<value, replaced, crossed>>
  BY BeginEdits
<1>2. /\ work'[w].at = "update" /\ work'[w].edit = e /\ work'[w].todo = rs
      /\ \A v \in Writers \ {w} : work'[v] = work[v]
  BY <1>1, BeginStays DEF TypeInv
<1>3. \A q \in Records : value[q] \in Int /\ value[q] < e
  BY <1>1 DEF TypeInv, EditTypes, UndoInv, Values, Edits, NoEdit
<1>4. \A v \in Writers : work[v].at = "update" => work[v].edit \in Int /\ work[v].edit < e
  BY <1>1, UpdatingFacts DEF UndoInv
<1>5. ASSUME NEW v \in Writers PROVE Reads(v)'
  <2>1. CASE v = w
    <3>1. \A q \in rs : q \in Records /\ <<e, q>> \in Entries /\ <<e, q>>[1] = e /\ <<e, q>>[2] = q
      BY DEF Entries
    <3>2. \A q \in rs : previous'[<<e, q>>] = value[q]
      BY <1>1, <3>1
    <3> QED
      BY <1>1, <1>2, <1>3, <2>1, <3>1, <3>2 DEF Reads, Edits
  <2>2. CASE v # w /\ work[v].at = "update"
    <3>1. work[v].edit # e /\ work[v].edit < e /\ work[v].edit \in Int
      BY <1>1, <1>4, <2>2 DEF Edits
    <3>2. \A q \in work[v].todo : <<work[v].edit, q>> \in Entries /\ <<work[v].edit, q>>[1] = work[v].edit
      BY <2>2, UpdatingFacts
    <3>3. \A q \in work[v].todo : previous'[<<work[v].edit, q>>] = previous[<<work[v].edit, q>>]
      BY <1>1, <3>1, <3>2
    <3>4. \A q \in work[v].todo :
            /\ value[q] # work[v].edit
            /\ <<work[v].edit, q>> \in crossed \/ previous[<<work[v].edit, q>>] = value[q]
      BY <2>2 DEF UndoInv
    <3> QED
      BY <1>1, <1>2, <2>2, <3>1, <3>3, <3>4 DEF Reads, Edits
  <2>3. CASE v # w /\ work[v].at # "update"
    BY <1>2, <2>3 DEF Reads
  <2> QED
    BY <2>1, <2>2, <2>3
<1>6. \A q \in Records : value'[q] < NextEdit'
  BY <1>1, <1>3 DEF Edits
<1>7. \A v, u \in Writers : v # u /\ work'[v].at = "update" /\ work'[u].at = "update" =>
        work'[v].edit # work'[u].edit
  BY <1>2, <1>4 DEF UndoInv, Edits
<1>8. LinesIn(Good)'
  <2>1. PICK G : G = Good
    OBVIOUS
  <2>2. PICK H : H = Good'
    OBVIOUS
  <2>3. G \subseteq H
    <3>1. NextEdit <= NextEdit' /\ NextEdit' \in Int /\ crossed \subseteq crossed'
      BY <1>1 DEF Edits
    <3>2. \A x \in Entries : x[1] < NextEdit => previous'[x] = previous[x] /\ replaced'[x] = replaced[x]
      BY <1>1, LineFacts DEF Edits
    <3> QED
      BY <2>1, <2>2, <3>1, <3>2, GoodGrows
  <2>4. LinesIn(G)
    BY <2>1 DEF UndoInv
  <2>5. LinesIn(G)'
    BY <2>4, BeginStays DEF Stays
  <2>6. LinesIn(H)'
    BY <2>3, <2>5, SeqGrows DEF LinesIn
  <2> QED
    BY <2>2, <2>6 DEF LinesIn
<1> QED
  BY <1>5, <1>6, <1>7, <1>8 DEF UndoInv, Reads

\* A record is changed, or its change raises.
LEMMA UpdateUndo ==
  ASSUME TypeInv, UndoInv, NEW w \in Writers, NEW r \in Records, Update(w, r)
  PROVE  UndoInv'
<1>1. PICK e \in Edits : e = work[w].edit /\ e \in Int
  <2>1. work[w].at = "update"
    BY UpdateEdits
  <2> QED
    BY <2>1, UpdatingFacts
<1>2. PICK x \in Entries : x = <<e, r>> /\ x[1] = e /\ x[2] = r
  <2>1. <<e, r>> \in Entries /\ <<e, r>>[1] = e /\ <<e, r>>[2] = r
    BY DEF Entries
  <2> QED
    BY <2>1
<1>3. /\ r \in work[w].todo /\ work[w].at = "update" /\ NextEdit' = NextEdit /\ NextEdit \in Int
      /\ UNCHANGED previous /\ e < NextEdit
      /\ value[r] # e /\ (x \in crossed \/ previous[x] = value[r])
  BY <1>1, <1>2, UpdateEdits, NextEditInt DEF UndoInv, TypeInv
<1>4. /\ work'[w].at = "update" => work'[w].edit = e /\ work'[w].todo = work[w].todo \ {r}
      /\ \A v \in Writers \ {w} : work'[v] = work[v]
  <2>1. work'[w].log = work[w].log \/ <<work[w].edit, r>> \in Lines
    BY <1>1, <1>2, LineFacts
  <2> QED
    BY <1>1, <2>1, UpdateGoes
<1>5. \A v \in Writers : work[v].at = "update" => work[v].edit \in Int /\ work[v].todo \subseteq Records
  BY UpdatingFacts
<1>6. ASSUME NEW v \in Writers, NEW q \in work[v].todo, work[v].at = "update", v # w \/ q # r
      PROVE  /\ value'[q] # work[v].edit
             /\ <<work[v].edit, q>> \in crossed' \/ previous[<<work[v].edit, q>>] = value'[q]
  <2>1. /\ value[q] # work[v].edit /\ q \in Records
        /\ <<work[v].edit, q>> \in crossed \/ previous[<<work[v].edit, q>>] = value[q]
    BY <1>5, <1>6 DEF UndoInv
  <2>2. CASE UNCHANGED <<value, crossed>>
    BY <2>1, <2>2
  <2>3. CASE /\ value' = [value EXCEPT ![r] = e]
             /\ crossed' = crossed \cup {<<work[u].edit, r>> : u \in Updating(r) \ {w}}
    <3>1. CASE q # r
      BY <2>1, <2>3, <3>1 DEF TypeInv, EditTypes
    <3>2. CASE q = r
      <4>1. v # w /\ v \in Updating(r)
        BY <1>6, <3>2 DEF Updating
      <4>2. <<work[v].edit, r>> \in crossed'
        BY <2>3, <4>1
      <4>3. value'[r] = e
        BY <2>3 DEF TypeInv, EditTypes
      <4>4. work[v].edit # e
        BY <1>1, <1>3, <1>6, <4>1 DEF UndoInv
      <4> QED
        BY <3>2, <4>2, <4>3, <4>4
    <3> QED
      BY <3>1, <3>2
  <2> QED
    BY <1>1, <2>2, <2>3, UpdateEdits
<1>7. ASSUME NEW v \in Writers PROVE Reads(v)'
  <2>1. CASE v = w
    BY <1>1, <1>3, <1>4, <1>6, <2>1 DEF Reads
  <2>2. CASE v # w
    <3>1. work[v].at = "update" => work[v].edit < NextEdit
      BY DEF UndoInv
    <3> QED
      BY <1>3, <1>4, <1>6, <2>2, <3>1 DEF Reads
  <2> QED
    BY <2>1, <2>2
<1>8. \A q \in Records : value'[q] < NextEdit'
  BY <1>1, <1>3, UpdateEdits DEF UndoInv, TypeInv, EditTypes
<1>9. \A v, u \in Writers : v # u /\ work'[v].at = "update" /\ work'[u].at = "update" =>
        work'[v].edit # work'[u].edit
  BY <1>1, <1>3, <1>4 DEF UndoInv
<1>10. LinesIn(Good)'
  <2>1. PICK G : G = Good
    OBVIOUS
  <2>2. PICK H : H = Good'
    OBVIOUS
  <2>3. /\ crossed \subseteq crossed'
        /\ \A y \in Entries : replaced'[y] = replaced[y] \/ (y = x /\ replaced'[y] = value[r])
    BY <1>1, <1>2, UpdateEdits DEF TypeInv, EditTypes
  <2>4. G \subseteq H
    <3>1. \A y \in Entries : y[1] < NextEdit =>
            /\ previous'[y] = previous[y]
            /\ \/ replaced'[y] = replaced[y]
               \/ replaced'[y] # y[1] /\ (y \in crossed' \/ previous'[y] = replaced'[y])
      BY <1>2, <1>3, <2>3
    <3>2. NextEdit <= NextEdit' /\ NextEdit' \in Int
      BY <1>3
    <3> QED
      BY <2>1, <2>2, <2>3, <3>1, <3>2, GoodGrows
  <2>5. work'[w].log = work[w].log \/ x \in H
    <3>1. CASE replaced' = [replaced EXCEPT ![<<work[w].edit, r>>] = value[r]]
      <4>1. replaced'[x] = value[r]
        BY <1>1, <1>2, <3>1 DEF TypeInv, EditTypes
      <4>2. Kept(x)'
        BY <1>2, <1>3, <2>3, <4>1 DEF Kept
      <4> QED
        BY <2>2, <4>2, LineFacts DEF Good
    <3> QED
      BY <3>1, UpdateEdits
  <2>6. LinesIn(G)
    BY <2>1 DEF UndoInv
  <2>7. LinesIn(H)'
    BY <1>1, <1>2, <2>4, <2>5, <2>6, UpdateStays DEF Stays
  <2> QED
    BY <2>2, <2>7 DEF LinesIn
<1> QED
  BY <1>7, <1>8, <1>9, <1>10 DEF UndoInv, Reads

\* A step that writes to a file.
LEMMA FileUndo ==
  ASSUME TypeInv, UndoInv, NEW w \in Writers, FileSteps(w)
  PROVE  UndoInv'
<1>1. PICK G : G = Good
  OBVIOUS
<1>2. LinesIn(G) /\ Torn \in G /\ Cut \in G
  BY <1>1, GoodLines DEF UndoInv
<1>3. /\ LinesIn(G)' /\ work'[w].at # "update"
      /\ \A v \in Writers \ {w} : /\ work'[v].at = work[v].at /\ work'[v].edit = work[v].edit
                                  /\ work'[v].todo = work[v].todo
      /\ UNCHANGED editVars /\ NextEdit' = NextEdit
  BY <1>2, FileStays DEF Stays
<1>4. LinesIn(Good)'
  <2>1. PICK H : H = Good'
    OBVIOUS
  <2>2. G = H
    BY <1>1, <1>3, <2>1 DEF Good, Kept, editVars
  <2> QED
    BY <1>3, <2>1, <2>2 DEF LinesIn
<1>5. \A v \in Writers : Reads(v)'
  BY <1>3 DEF Reads, UndoInv, editVars
<1>6. \A q \in Records : value'[q] < NextEdit'
  BY <1>3 DEF UndoInv, editVars
<1>7. \A v, u \in Writers : v # u /\ work'[v].at = "update" /\ work'[u].at = "update" =>
        work'[v].edit # work'[u].edit
  BY <1>3 DEF UndoInv
<1> QED
  BY <1>4, <1>5, <1>6, <1>7 DEF UndoInv, Reads

\* Every step keeps what can be undone true.
LEMMA UndoStep == TypeInv /\ UndoInv /\ [HistoryNext]_historyVars => UndoInv'
<1> SUFFICES ASSUME TypeInv, UndoInv, [HistoryNext]_historyVars PROVE UndoInv'
  OBVIOUS
<1>1. CASE UNCHANGED historyVars
  <2>1. UNCHANGED <<value, previous, replaced, crossed, live, temp, work, budget>> /\ NextEdit' = NextEdit
    BY <1>1 DEF historyVars, editVars, fileVars, NextEdit
  <2>2. \A x : Kept(x)' <=> Kept(x)
    BY <2>1 DEF Kept
  <2>3. PICK G : G = Good
    OBVIOUS
  <2>4. G = Good'
    BY <2>2, <2>3 DEF Good
  <2>5. LinesIn(G)'
    BY <2>1, <2>3 DEF UndoInv, LinesIn
  <2>6. LinesIn(Good)'
    BY <2>4, <2>5 DEF LinesIn
  <2> QED
    BY <2>1, <2>6 DEF UndoInv
<1> QED
  BY <1>1, EditUndo, BeginUndo, UpdateUndo, FileUndo DEF HistoryNext, FileSteps

-----------------------------------------------------------------------------
(* What the file keeps.                                                    *)

\* Anything may stand for entries that all run a risk.
LEMMA RiskyIsSound == (AllRisked => FileInv) /\ (AllRisked' => FileInv')
  BY DEF AllRisked, FileInv, Sound

\* One entry more is written, at the end of s or at a risk.
LEMMA SoundGrows ==
  ASSUME NoteTypes, NEW s, NEW t, Len(s) \in Nat, Len(t) \in Nat, Sound(s), NEW e \in Entries,
         written' = Append(written, e), risked \subseteq risked',
         Len(t) <= Len(s) + 1,
         \A i \in 1..Len(s) : s[i] \in Entries => i <= Len(t) /\ t[i] = s[i],
         e \in risked' \/ (Len(t) > 0 /\ t[Len(t)] = e)
  PROVE  Sound(t)'
<1>1. /\ Len(written) \in Nat /\ Len(written') = Len(written) + 1 /\ written'[Len(written) + 1] = e
      /\ \A p \in 1..Len(written) : written'[p] = written[p] /\ written[p] \in Entries
  BY AppendProperties, LenProperties, ElementOfSeq DEF NoteTypes
<1> SUFFICES ASSUME NEW p \in 1..Len(written'), p > Len(written') - HistoryKeep, written'[p] \notin risked'
             PROVE  \E i \in 1..Len(t) : t[i] = written'[p] /\ Len(t) - i <= Len(written') - p
  BY DEF Sound
<1>2. CASE p = Len(written) + 1
  <2>1. Len(t) \in 1..Len(t) /\ t[Len(t)] = written'[p] /\ Len(t) - Len(t) <= Len(written') - p
    BY <1>1, <1>2
  <2> QED
    BY <2>1
<1>3. CASE p # Len(written) + 1
  <2>1. /\ p \in 1..Len(written) /\ p > Len(written) - HistoryKeep /\ written[p] \notin risked
        /\ written'[p] = written[p] /\ written[p] \in Entries
    BY <1>1, <1>3, HistoryAssumption
  <2>2. PICK i \in 1..Len(s) : s[i] = written[p] /\ Len(s) - i <= Len(written) - p
    BY <2>1 DEF Sound
  <2>3. i \in 1..Len(t) /\ t[i] = written'[p] /\ Len(t) - i <= Len(written') - p
    BY <1>1, <2>1, <2>2
  <2> QED
    BY <2>3
<1> QED
  BY <1>2, <1>3

\* The newest lines of a sound sequence are sound, ended or not.
LEMMA SoundNewest ==
  ASSUME NoteTypes, NEW s \in Seq(Lines), Sound(s)
  PROVE  Sound(Ended(Newest(s, HistoryKeep)))
<1> DEFINE t == Newest(s, HistoryKeep)
<1>1. /\ t \in Seq(Lines) /\ Len(s) \in Nat /\ HistoryKeep \in Nat \ {0}
      /\ Len(t) = IF Len(s) <= HistoryKeep THEN Len(s) ELSE HistoryKeep
      /\ \A i \in 1..Len(t) : t[i] = s[Len(s) - Len(t) + i]
  BY NewestType, LenProperties, HistoryAssumption
<1> HIDE DEF t
<1>2. Len(Ended(t)) = Len(t) /\ \A i \in 1..Len(t) : t[i] # Cut => Ended(t)[i] = t[i]
  BY <1>1, EndedType, LineFacts
<1>3. Len(written) \in Nat /\ \A p \in 1..Len(written) : written[p] \in Entries
  BY LenProperties, ElementOfSeq DEF NoteTypes
<1> SUFFICES ASSUME NEW p \in 1..Len(written), p > Len(written) - HistoryKeep, written[p] \notin risked
             PROVE  \E i \in 1..Len(t) : Ended(t)[i] = written[p] /\ Len(t) - i <= Len(written) - p
  BY <1>2 DEF Sound, t
<1>4. PICK i \in 1..Len(s) : s[i] = written[p] /\ Len(s) - i <= Len(written) - p
  BY DEF Sound
<1>5. PICK k \in 1..Len(t) : i = Len(s) - Len(t) + k
  <2>3. Len(s) - i < HistoryKeep
    BY <1>1, <1>3, <1>4
  <2>4. PICK m \in Nat, n \in Nat : m = Len(s) /\ n = Len(t) /\ n = IF m <= HistoryKeep THEN m ELSE HistoryKeep
    BY <1>1
  <2>5. i \in 1..m /\ m - i < HistoryKeep /\ HistoryKeep \in Nat
    BY <1>1, <2>3, <2>4
  <2>6. i - (m - n) \in 1..n
    BY <2>4, <2>5
  <2>1. PICK k \in 1..n : k = i - (m - n)
    BY <2>6
  <2>7. i \in Int /\ m \in Int /\ n \in Int /\ k \in Int
    BY <2>4, <2>5
  <2>2. i = m - n + k
    BY <2>1, <2>7
  <2> QED
    BY <2>1, <2>2, <2>4
<1>6. t[k] = written[p] /\ written[p] # Cut
  BY <1>1, <1>3, <1>4, <1>5, LineFacts
<1>7. Ended(t)[k] = written[p] /\ Len(t) - k <= Len(written) - p
  BY <1>1, <1>2, <1>3, <1>4, <1>5, <1>6
<1> QED
  BY <1>7

\* Nothing is written, and nobody begins to trim or goes on with it.
LEMMA NobodyTrims ==
  ASSUME FileInv, UNCHANGED <<written, risked, live, temp, waiting>>,
         \A w \in Writers : work'[w].at \in Trims => work'[w] = work[w]
  PROVE  FileInv'
<1>1. Trimming' \subseteq Trimming
  BY DEF Trimming
<1>2. ASSUME NEW w \in Writers, work'[w].at \in {"opentmp", "writetmp", "replace"} PROVE work'[w] = work[w]
  BY <1>2 DEF Trims
<1>3. ASSUME NEW w \in Writers, work'[w].at \in {"opentmp", "writetmp"}
      PROVE  Sound(work[w].kept)' /\ work'[w].kept = work[w].kept
  <2>1. work'[w] = work[w] /\ Sound(work[w].kept)
    BY <1>2, <1>3 DEF FileInv
  <2>2. work'[w].kept = work[w].kept /\ Sound(work[w].kept)
    BY <2>1
  <2> QED
    BY <2>2 DEF Sound
<1> QED
  BY <1>1, <1>2, <1>3 DEF FileInv, Sound, AllRisked

\* An entry is written, or cut.
LEMMA FlushFile ==
  ASSUME TypeInv, FileInv, NEW w \in Writers, Flush(w) \/ FlushFails(w)
  PROVE  FileInv'
<1>1. PICK e \in Entries : e = Head(work[w].log)
  BY FlushStays, FlushFailsStays, LineFacts DEF TypeInv
<1>2. /\ work[w].at = "flush" /\ work'[w].at \in {"flush", "read", "idle"}
      /\ \A v \in Writers \ {w} : work'[v] = work[v]
  BY FlushStays, FlushFailsStays, LineFacts, IdleType DEF TypeInv, Flush, FlushFails
<1>3. /\ written' = Append(written, e) /\ risked \subseteq risked' /\ UNCHANGED <<temp, waiting>>
      /\ Trimming # {} => e \in risked'
  BY <1>1 DEF Flush, Flushed, FlushFails
<1>4. /\ live \in Seq(Lines) /\ Len(live) \in Nat /\ temp \in Seq(Lines) /\ Len(temp) \in Nat
      /\ NoteTypes /\ \A v \in Writers : work[v].kept \in Seq(Lines) /\ Len(work[v].kept) \in Nat
  BY LenProperties DEF TypeInv, LinesIn
<1>5. Sound(live)'
  <2> PICK t : t = live'
    OBVIOUS
  <2>1. CASE t = live /\ e \in risked'
    <3>1. Sound(t)'
      BY <1>3, <1>4, <2>1, SoundGrows DEF FileInv
    <3> QED
      BY <3>1 DEF Sound
  <2>2. CASE t = Glue(live, <<e>>) /\ (Unended(live) => e \in risked')
    <3>1. /\ Len(t) = (IF Unended(live) THEN Len(live) ELSE Len(live) + 1)
          /\ \A i \in 1..Len(live) : live[i] \in Entries => t[i] = live[i] /\ i <= Len(t)
          /\ ~Unended(live) => t[Len(live) + 1] = e
      BY <1>4, <2>2, GlueOne, LineFacts
    <3>2. Len(t) \in Nat /\ Len(t) <= Len(live) + 1 /\ (e \in risked' \/ (Len(t) > 0 /\ t[Len(t)] = e))
      BY <1>4, <2>2, <3>1
    <3>4. Sound(t)'
      BY <1>3, <1>4, <3>1, <3>2, SoundGrows DEF FileInv
    <3> QED
      BY <3>4 DEF Sound
  <2>3. CASE t = Glue(live, <<Cut>>) /\ e \in risked'
    <3>1. /\ Len(t) = (IF Unended(live) THEN Len(live) ELSE Len(live) + 1)
          /\ \A i \in 1..Len(live) : live[i] \in Entries => t[i] = live[i] /\ i <= Len(t)
      BY <1>4, <2>3, GlueOne, LineFacts
    <3>2. Len(t) \in Nat /\ Len(t) <= Len(live) + 1
      BY <1>4, <3>1
    <3>4. Sound(t)'
      BY <1>3, <1>4, <2>3, <3>1, <3>2, SoundGrows DEF FileInv
    <3> QED
      BY <3>4 DEF Sound
  <2>4. /\ Flush(w) => \/ t = live /\ e \in risked'
                       \/ t = Glue(live, <<e>>) /\ (Unended(live) => e \in risked')
        /\ FlushFails(w) => e \in risked' /\ (t = live \/ t = Glue(live, <<Cut>>))
    <3>1. work[w].on \in {"live", "gone"}
      BY <1>2 DEF TypeInv, WorkTypes, WorkInv
    <3> QED
      BY <1>1, <3>1 DEF Flush, Flushed, FlushFails
  <2> QED
    BY <2>1, <2>2, <2>3, <2>4
<1>6. ASSUME NEW s \in Seq(Lines), Sound(s), Trimming # {} PROVE Sound(s)'
  BY <1>3, <1>4, <1>6, SoundGrows, LenProperties
<1>7. ASSUME NEW v \in Writers, work'[v].at \in Trims PROVE work'[v] = work[v] /\ v \in Trimming
  BY <1>2, <1>7 DEF Trims, Trimming
<1>8. Trimming' = Trimming
  BY <1>2, <1>7 DEF Trimming, Trims
<1>9. AllRisked /\ Trimming # {} => AllRisked'
  BY <1>3, <1>4, AppendProperties, LenProperties DEF AllRisked, NoteTypes
<1>10. ASSUME NEW v \in Writers, work'[v].at \in {"opentmp", "writetmp"} PROVE Sound(work[v].kept)'
  <2>1. v \in Trimming /\ work'[v] = work[v]
    BY <1>7, <1>10 DEF Trims
  <2>2. PICK s \in Seq(Lines) : s = work[v].kept
    BY <1>4
  <2>3. Sound(s)'
    BY <1>6, <1>10, <2>1, <2>2 DEF FileInv
  <2> QED
    BY <2>1, <2>2, <2>3 DEF Sound
<1>11. ASSUME NEW v \in Writers, work'[v].at = "replace", waiting' PROVE Sound(temp)'
  <2>1. v \in Trimming /\ work'[v] = work[v]
    BY <1>7, <1>11 DEF Trims
  <2>2. PICK s \in Seq(Lines) : s = temp
    BY <1>4
  <2>3. Sound(s)'
    BY <1>3, <1>6, <1>11, <2>1, <2>2 DEF FileInv
  <2> QED
    BY <1>3, <2>2, <2>3 DEF Sound
<1>12. ASSUME NEW v \in Writers, work'[v].at = "writetmp"
       PROVE  AllRisked' \/ (work'[v].on = "temp" /\ temp' = <<>>)
  <2>1. v \in Trimming /\ work'[v] = work[v]
    BY <1>7, <1>12 DEF Trims
  <2> QED
    BY <1>3, <1>9, <1>12, <2>1 DEF FileInv
<1>13. \A u, v \in Trimming' : u # v => AllRisked'
  <2> SUFFICES ASSUME NEW u \in Trimming', NEW v \in Trimming', u # v PROVE AllRisked'
    OBVIOUS
  <2>1. u \in Trimming /\ v \in Trimming
    BY <1>8
  <2> QED
    BY <1>9, <2>1 DEF FileInv
<1> QED
  BY <1>5, <1>10, <1>11, <1>12, <1>13 DEF FileInv

\* The file is read back.
LEMMA ReadFile ==
  ASSUME TypeInv, FileInv, NEW w \in Writers, Read(w)
  PROVE  FileInv'
<1>1. /\ work[w].at = "read" /\ \A v \in Writers \ {w} : work'[v] = work[v]
      /\ UNCHANGED <<live, temp, waiting, written>>
  BY ReadStays, LineFacts DEF TypeInv, Read
<1>2. CASE work'[w] = AtRest /\ risked' = risked
  <2>1. \A v \in Writers : work'[v].at \in Trims => work'[v] = work[v]
    BY <1>1, <1>2, IdleType DEF Trims
  <2> QED
    BY <1>1, <1>2, <2>1, NobodyTrims
<1>3. CASE risked' = risked \cup {written[i] : i \in DOMAIN written}
  <2>1. DOMAIN written = 1..Len(written)
    BY LenProperties DEF TypeInv, NoteTypes
  <2>2. AllRisked'
    BY <1>1, <1>3, <2>1 DEF AllRisked
  <2> QED
    BY <2>2, RiskyIsSound
<1>4. CASE /\ work'[w].at = "opentmp" /\ work'[w].kept = Ended(Newest(live, HistoryKeep))
           /\ Trimming = {} /\ risked' = risked
  <2>1. \A v \in Writers : v # w => work'[v].at \notin Trims
    BY <1>1, <1>4 DEF Trimming
  <2>2. PICK s : s = Ended(Newest(live, HistoryKeep))
    OBVIOUS
  <2>3. Sound(s)
    BY <2>2, SoundNewest DEF FileInv, TypeInv, LinesIn
  <2>4. Sound(s)' /\ Sound(live)' /\ work'[w].kept = s
    BY <1>1, <1>4, <2>2, <2>3 DEF Sound, FileInv
  <2>5. \A v \in Writers : work'[v].at \in Trims => v = w
    BY <2>1
  <2>6. \A v \in Writers : work'[v].at \in {"opentmp", "writetmp"} => Sound(work[v].kept)'
    <3>1. Sound(work[w].kept)'
      BY <2>4 DEF Sound
    <3> QED
      BY <2>5, <3>1 DEF Trims
  <2>7. \A v \in Writers : work'[v].at \notin {"writetmp", "replace"}
    BY <1>4, <2>5 DEF Trims
  <2>8. \A u, v \in Trimming' : u = v
    BY <2>5 DEF Trimming
  <2> QED
    BY <2>4, <2>6, <2>7, <2>8 DEF FileInv
<1>5. \/ work'[w] = AtRest /\ risked' = risked
      \/ risked' = risked \cup {written[i] : i \in DOMAIN written}
      \/ /\ work'[w].at = "opentmp" /\ work'[w].kept = Ended(Newest(live, HistoryKeep))
         /\ Trimming = {} /\ risked' = risked
  <2>1. CASE Len(live) > 2 * HistoryKeep
    <3>1. work'[w].at = "opentmp"
      BY <2>1 DEF Read, TypeInv, WorkTypes, AtRest
    <3>2. work'[w] # AtRest
      BY <3>1, IdleType
    <3> QED
      BY <2>1, <3>2, ReadStays, LineFacts DEF Read, TypeInv
  <2>2. CASE ~(Len(live) > 2 * HistoryKeep)
    <3>1. work' = [work EXCEPT ![w] = AtRest] /\ risked' = risked
      BY <2>2 DEF Read
    <3> QED
      BY <3>1 DEF TypeInv, WorkTypes
  <2> QED
    BY <2>1, <2>2
<1> QED
  BY <1>2, <1>3, <1>4, <1>5

\* One who trims alone, while not all that was written runs a risk.
LEMMA Alone ==
  ASSUME FileInv, NEW w \in Writers, work[w].at \in Trims, ~AllRisked
  PROVE  \A v \in Writers \ {w} : work[v].at \notin Trims
  BY DEF FileInv, Trimming

\* The temporary file is opened, written, and takes the place of the history.
LEMMA TmpFile ==
  ASSUME TypeInv, FileInv, NEW w \in Writers, OpenTmp(w) \/ WriteTmp(w) \/ WriteTmpFails(w) \/ Replace(w)
  PROVE  FileInv'
<1>1. UNCHANGED <<written, risked>> /\ work[w].at \in Trims
  BY DEF OpenTmp, WriteTmp, WriteTmpFails, Replace, Trims
<1>2. CASE AllRisked
  <2>1. AllRisked'
    BY <1>1, <1>2 DEF AllRisked
  <2> QED
    BY <2>1, RiskyIsSound
<1>3. CASE ~AllRisked
  <2>1. \A v \in Writers \ {w} : work[v].at \notin Trims
    BY <1>1, <1>3, Alone
  <2>2. \A s : Sound(s) => Sound(s)'
    BY <1>1 DEF Sound
  <2>3. \A v \in Writers \ {w} : work'[v].at = work[v].at
    BY OpenTmpStays, WriteTmpStays, WriteTmpFailsStays, ReplaceStays, LineFacts DEF TypeInv
  <2>4. \A v \in Writers : work'[v].at \in Trims => v = w
    BY <2>1, <2>3
  <2>5. \A u, v \in Trimming' : u = v
    BY <2>4 DEF Trimming
  <2>6. \A v \in Writers : work'[v].at \in {"opentmp", "writetmp", "replace"} => v = w
    BY <2>4 DEF Trims
  <2>7. CASE OpenTmp(w)
    <3>1. /\ work'[w].at = "writetmp" /\ work'[w].on = "temp" /\ work'[w].kept = work[w].kept
          /\ live' = live /\ temp' = <<>> /\ work[w].at = "opentmp"
      BY <2>7, OpenTmpStays, LineFacts DEF TypeInv, OpenTmp
    <3>2. PICK s : s = work[w].kept
      OBVIOUS
    <3>3. Sound(s)'
      BY <2>2, <3>1, <3>2 DEF FileInv
    <3>4. Sound(work[w].kept)' /\ Sound(live)'
      BY <1>1, <3>1, <3>2, <3>3 DEF Sound, FileInv
    <3> QED
      BY <2>5, <2>6, <3>1, <3>4 DEF FileInv
  <2>8. CASE WriteTmp(w)
    <3>1. work[w].at = "writetmp" /\ work[w].on = "temp" /\ temp = <<>> /\ Sound(work[w].kept)
      BY <1>3, <2>8 DEF WriteTmp, FileInv
    <3>2. live' = live /\ temp' \in Over(work[w].kept, <<>>)
      BY <2>8, <3>1 DEF WriteTmp, Put
    <3>3. work[w].kept \in Seq(Lines)
      BY DEF TypeInv, LinesIn
    <3>4. temp' = work[w].kept
      BY <3>2, <3>3, OverEmpty
    <3>5. Sound(temp)' /\ Sound(live)'
      BY <1>1, <3>1, <3>2, <3>4 DEF Sound, FileInv
    <3>6. work'[w].at = "replace"
      BY <2>8, WriteTmpStays, LineFacts DEF TypeInv
    <3> QED
      BY <2>5, <2>6, <3>5, <3>6 DEF FileInv
  <2>9. CASE WriteTmpFails(w)
    <3>1. work[w].on = "temp" /\ work'[w] = AtRest
      BY <1>3, <2>9, WriteTmpFailsStays, LineFacts DEF WriteTmpFails, FileInv, TypeInv
    <3>2. live' = live
      BY <2>9, <3>1 DEF WriteTmpFails, Put
    <3>3. Sound(live)'
      BY <1>1, <3>2 DEF Sound, FileInv
    <3> QED
      BY <2>5, <2>6, <3>1, <3>3, IdleType DEF FileInv
  <2>10. CASE Replace(w)
    <3>1. work'[w] = AtRest
      BY <2>10, ReplaceStays, LineFacts DEF TypeInv
    <3>2. live' = live \/ (live' = temp /\ waiting /\ work[w].at = "replace")
      BY <2>10 DEF Replace
    <3>3. Sound(live)'
      BY <1>1, <3>2 DEF Sound, FileInv
    <3> QED
      BY <2>5, <2>6, <3>1, <3>3, IdleType DEF FileInv
  <2> QED
    BY <2>7, <2>8, <2>9, <2>10
<1> QED
  BY <1>2, <1>3

\* Every step keeps in the file, and in what may take its place, what ran no risk.
LEMMA FileStep == TypeInv /\ FileInv /\ [HistoryNext]_historyVars => FileInv'
<1> SUFFICES ASSUME TypeInv, FileInv, [HistoryNext]_historyVars PROVE FileInv'
  OBVIOUS
<1>1. ASSUME NEW r \in Records, Edit(r) PROVE FileInv'
  BY <1>1, EditEdits, NobodyTrims
<1>2. ASSUME NEW w \in Writers, NEW rs \in SUBSET Records, Begin(w, rs) PROVE FileInv'
  <2>1. work'[w].at = "update" /\ \A v \in Writers \ {w} : work'[v] = work[v]
    BY <1>2, BeginStays DEF TypeInv
  <2> QED
    BY <1>2, <2>1, BeginEdits, NobodyTrims DEF Trims
<1>3. ASSUME NEW w \in Writers, NEW r \in Records, Update(w, r) PROVE FileInv'
  <2>1. PICK log : Onward(w, work[w].todo \ {r}, log)
    BY <1>3 DEF Update
  <2>2. /\ \A v \in Writers \ {w} : work'[v] = work[v]
        /\ work'[w].at \in {"update", "open", "idle"}
    BY <2>1 DEF Onward, TypeInv, WorkTypes, Works
  <2> QED
    BY <1>3, <2>2, UpdateEdits, NobodyTrims DEF Trims
<1>4. ASSUME NEW w \in Writers, OpenLog(w) \/ GiveUp(w) PROVE FileInv'
  <2>1. work'[w].at \notin Trims /\ \A v \in Writers \ {w} : work'[v] = work[v]
    BY <1>4, OpenLogStays, GiveUpStays, IdleType DEF TypeInv, Trims
  <2>2. UNCHANGED <<written, risked, live, temp, waiting>>
    BY <1>4 DEF OpenLog, GiveUp, fileVars
  <2> QED
    BY <2>1, <2>2, NobodyTrims
<1>5. CASE UNCHANGED historyVars
  BY <1>5, NobodyTrims DEF historyVars, fileVars
<1> QED
  BY <1>1, <1>2, <1>3, <1>4, <1>5, FlushFile, ReadFile, TmpFile DEF HistoryNext
-----------------------------------------------------------------------------
\* What is true in every state.
Safe == TypeInv /\ UndoInv /\ FileInv

\* The history begins safe.
LEMMA SafeInit == HistoryInit => Safe
<1> SUFFICES ASSUME HistoryInit PROVE Safe
  OBVIOUS
<1>1. TypeInv
  BY TypeInit
<1>2. \A w \in Writers : work[w].at = "idle" /\ work[w].kept \in Seq(Good) /\ work[w].log \in Seq(Good)
  BY IdleType DEF HistoryInit
<1>3. UndoInv
  <2>1. \A r \in Records : value[r] < NextEdit
    BY <1>1, NextEditInt DEF HistoryInit, NoEdit, TypeInv
  <2>2. LinesIn(Good)
    BY <1>2, EmptySeq DEF HistoryInit, LinesIn
  <2> QED
    BY <1>2, <2>1, <2>2 DEF UndoInv
<1>4. FileInv
  <2>1. Len(written) = 0
    BY EmptySeq DEF HistoryInit
  <2>2. AllRisked
    BY <2>1 DEF AllRisked
  <2> QED
    BY <2>2, RiskyIsSound
<1> QED
  BY <1>1, <1>3, <1>4 DEF Safe

\* Every step leaves it safe.
LEMMA SafeStep == Safe /\ [HistoryNext]_historyVars => Safe'
  BY TypeStep, UndoStep, FileStep DEF Safe

\* Safe holds in every state of the history, for any processes, records and faults.
THEOREM HistorySafe == HistorySpec => []Safe
<1> QED
  BY SafeInit, SafeStep, PTL DEF HistorySpec

\* The files, the operations under way and the notes about them are well formed.
THEOREM HistoryTypeCorrect == HistorySpec => []HistoryTypeOK
<1>1. Safe => HistoryTypeOK
  <2> SUFFICES ASSUME Safe PROVE HistoryTypeOK
    OBVIOUS
  <2>1. EditTypes /\ NoteTypes /\ work \in [Writers -> Works] /\ waiting \in BOOLEAN
        /\ live \in Seq(Lines) /\ temp \in Seq(Lines)
    BY DEF Safe, TypeInv, WorkTypes, LinesIn
  <2> QED
    BY <2>1 DEF HistoryTypeOK, EditTypes, NoteTypes, Works, Ats
<1> QED
  BY <1>1, HistorySafe, PTL

\* detail_fetch.py:501-523, manage_service.py:414-447: whatever processes edit, append and
\* trim at once, what is offered to undo was done, and brings back what the edit
\* replaced, unless another edit came between its read and its write.
THEOREM UndoAlwaysTrue == HistorySpec => []UndoIsTrue
<1>1. Safe => UndoIsTrue
  <2> SUFFICES ASSUME Safe, NEW i \in DOMAIN live, live[i] \in Entries
               PROVE  /\ replaced[live[i]] # live[i][1]
                      /\ live[i] \in crossed \/ previous[live[i]] = replaced[live[i]]
    BY DEF UndoIsTrue
  <2>1. i \in 1..Len(live) /\ live \in Seq(Good)
    BY LenProperties DEF Safe, TypeInv, LinesIn, UndoInv
  <2>2. Kept(live[i])
    BY <2>1, ElementOfSeq DEF Good
  <2> QED
    BY <2>2 DEF Kept
<1> QED
  BY <1>1, HistorySafe, PTL

\* history.py:3-10: of the newest changes none is missing from what is offered but those
\* that ran into another process's trim or into a failed write, however many
\* processes append to the file and trim it.
THEOREM NewestAlwaysKept == HistorySpec => []NewestKept
<1>1. Safe => NewestKept
  <2> SUFFICES ASSUME Safe, NEW p \in DOMAIN written,
                      p > Len(written) - HistoryKeep, written[p] \notin risked
               PROVE  written[p] \in Offered
    BY DEF NewestKept
  <2>1. /\ live \in Seq(Lines) /\ Len(live) \in Nat /\ DOMAIN live = 1..Len(live)
        /\ Len(written) \in Nat /\ p \in 1..Len(written) /\ written[p] \in Entries
    BY LenProperties, ElementOfSeq DEF Safe, TypeInv, NoteTypes, LinesIn
  <2>2. PICK i \in 1..Len(live) : live[i] = written[p] /\ Len(live) - i <= Len(written) - p
    BY <2>1 DEF Safe, FileInv, Sound
  <2> DEFINE later == {k \in DOMAIN live : k >= i /\ live[k] \in Entries}
  <2>3. Len(live) - i + 1 <= HistoryKeep
    BY <2>1, <2>2, HistoryAssumption
  <2>4. IsFiniteSet(i..Len(live)) /\ Cardinality(i..Len(live)) = Len(live) - i + 1
    BY <2>1, <2>2, FS_Interval
  <2>5. later \subseteq i..Len(live)
    BY <2>1, <2>2
  <2>6. IsFiniteSet(later) /\ Cardinality(later) \in Nat /\ Cardinality(later) <= Cardinality(i..Len(live))
    BY <2>4, <2>5, FS_Subset, FS_CardinalityType
  <2>7. Cardinality(later) <= HistoryKeep
    BY <2>1, <2>2, <2>3, <2>4, <2>6, HistoryAssumption
  <2>8. i \in {j \in DOMAIN live :
                 live[j] \in Entries /\ Cardinality({k \in DOMAIN live : k >= j /\ live[k] \in Entries}) <= HistoryKeep}
    BY <2>1, <2>2, <2>7
  <2> QED
    BY <2>2, <2>8 DEF Offered
<1> QED
  BY <1>1, HistorySafe, PTL

=============================================================================
