----------------------------- MODULE TradeLogProofs -----------------------------
(***************************************************************************)
(* The trade log for any number of files, folders and records.  The        *)
(* argument: a file either shows every record that was logged to it, with  *)
(* one separator waiting in the buffer, or it is broken or was truncated,  *)
(* and then the run that wrote it is over.  And as long as the clock is    *)
(* not set back, every earlier run's log has a name below its reading.     *)
(***************************************************************************)
EXTENDS TradeLog, SequenceTheorems, TLAPS

Pending(records) == IF records = << >> THEN << >> ELSE <<Separator>>

Healthy(f) == f.disk = ListOf(f.output) /\ f.buffer = Pending(f.output)

Broken(f) ==
  /\ f.output # << >> /\ ~f.good
  /\ \E torn \in TornEnds(f) : f.disk = ListOf(Front(f.output)) \o torn

Damaged(f) == f.truncated \/ Broken(f)

FileInv(f, i) == Healthy(f) \/ (Damaged(f) /\ (up => i < first))

FilesInv == \A i \in DOMAIN files : FileInv(files[i], i)

(* The name of a log, which is the reading it was opened at, and the clock.*)
NameInv(f, i) ==
  \/ f.setBack
  \/ ~f.truncated /\ f.path[2] <= now /\ ((up /\ i < first) => f.path[2] < now)

NamesInv == \A i \in DOMAIN files : NameInv(files[i], i)

RunInv == Len(files) \in Nat /\ first <= Len(files) + 1

IInv == TypeOK /\ FilesInv /\ NamesInv /\ RunInv

----------------------------------------------------------------------------
(* Lists of records.                                                       *)

LEMMA PieceTypes ==
  /\ Separator \in Pieces
  /\ \A r \in Records : Whole(r) \in Pieces /\ Part(r) \in Pieces
BY DEF Pieces

LEMMA ListType ==
  ASSUME NEW rs \in Seq(Records)
  PROVE  /\ ListOf(rs) \in Seq(Pieces)
         /\ Len(ListOf(rs)) = IF rs = << >> THEN 0 ELSE 2 * Len(rs) - 1
         /\ \A i \in 1 .. 2 * Len(rs) - 1 :
              ListOf(rs)[i] = IF i % 2 = 1 THEN Whole(rs[(i + 1) \div 2])
                              ELSE Separator
<1>1. CASE rs = << >>
  <2>1. ListOf(rs) = << >>
    BY <1>1 DEF ListOf
  <2>2. 1 .. 2 * Len(rs) - 1 = {}
    BY <1>1
  <2>3. << >> \in Seq(Pieces) /\ Len(<< >>) = 0
    BY EmptySeq
  <2>4. /\ ListOf(rs) \in Seq(Pieces)
        /\ Len(ListOf(rs)) = IF rs = << >> THEN 0 ELSE 2 * Len(rs) - 1
    <3>1. ListOf(rs) \in Seq(Pieces)
      BY <2>1, <2>3
    <3>2. Len(ListOf(rs)) = 0
      BY <2>1, <2>3
    <3> QED
      BY <1>1, <3>1, <3>2, Zenon
  <2>5. \A i \in 1 .. 2 * Len(rs) - 1 :
          ListOf(rs)[i] = IF i % 2 = 1 THEN Whole(rs[(i + 1) \div 2])
                          ELSE Separator
    BY <2>2, Zenon
  <2> QED
    BY <2>4, <2>5, Zenon
<1>2. CASE rs # << >>
  <2>1. Len(rs) \in Nat \ {0}
    BY <1>2, EmptySeq
  <2>2. \A i \in 1 .. 2 * Len(rs) - 1 : (i + 1) \div 2 \in 1 .. Len(rs)
    BY <2>1
  <2>3. \A i \in 1 .. 2 * Len(rs) - 1 : ListOf(rs)[i] \in Pieces
    BY <2>2, PieceTypes, ElementOfSeq DEF ListOf
  <2>4. 2 * Len(rs) - 1 \in Nat
    BY <2>1
  <2> QED
    BY <1>2, <2>3, <2>4 DEF ListOf
<1> QED
  BY <1>1, <1>2

LEMMA ListEmpty == ListOf(<< >>) = << >>
BY DEF ListOf

LEMMA PendingType ==
  ASSUME NEW rs
  PROVE  /\ Pending(rs) \in Seq(Pieces)
         /\ Len(Pending(rs)) = IF rs = << >> THEN 0 ELSE 1
BY PieceTypes DEF Pending

(* One more record: what is pending, and then the record.                  *)
LEMMA ListAppend ==
  ASSUME NEW rs \in Seq(Records), NEW r \in Records
  PROVE  ListOf(Append(rs, r)) = ListOf(rs) \o Pending(rs) \o <<Whole(r)>>
<1> DEFINE more == Append(rs, r)
           old == ListOf(rs) \o Pending(rs)
           new == old \o <<Whole(r)>>
<1>1. more \in Seq(Records) /\ Len(more) = Len(rs) + 1 /\ Len(rs) \in Nat
      /\ more # << >>
  OBVIOUS
<1>2. /\ ListOf(more) \in Seq(Pieces) /\ Len(ListOf(more)) = 2 * Len(rs) + 1
      /\ \A i \in 1 .. 2 * Len(rs) + 1 :
           ListOf(more)[i] = IF i % 2 = 1 THEN Whole(more[(i + 1) \div 2])
                             ELSE Separator
  <2> HIDE DEF more
  <2>1. 2 * Len(more) - 1 = 2 * Len(rs) + 1
    BY <1>1
  <2> QED
    BY <1>1, <2>1, ListType
<1>3. old \in Seq(Pieces) /\ Len(old) = 2 * Len(rs)
  <2>1. /\ ListOf(rs) \in Seq(Pieces) /\ Pending(rs) \in Seq(Pieces)
        /\ Len(ListOf(rs)) + Len(Pending(rs)) = 2 * Len(rs)
    <3>1. CASE rs = << >>
      <4>1. Len(ListOf(rs)) = 0 /\ Len(Pending(rs)) = 0 /\ Len(rs) = 0
        BY <3>1, ListType, PendingType, EmptySeq, Zenon
      <4> QED
        BY <4>1, ListType, PendingType
    <3>2. CASE rs # << >>
      <4>1. /\ Len(ListOf(rs)) = 2 * Len(rs) - 1
            /\ Len(Pending(rs)) = 1
        BY <3>2, ListType, PendingType, Zenon
      <4> QED
        BY <1>1, <4>1, ListType, PendingType
    <3> QED
      BY <3>1, <3>2
  <2> QED
    BY <2>1, ConcatProperties
<1>4. <<Whole(r)>> \in Seq(Pieces) /\ Len(<<Whole(r)>>) = 1
      /\ <<Whole(r)>>[1] = Whole(r)
  BY PieceTypes
<1>5. /\ new \in Seq(Pieces) /\ Len(new) = 2 * Len(rs) + 1
      /\ \A i \in 1 .. 2 * Len(rs) : new[i] = old[i]
      /\ new[2 * Len(rs) + 1] = Whole(r)
  <2> HIDE DEF old
  <2> QED
    BY <1>1, <1>3, <1>4, ConcatProperties
<1>6. \A i \in 1 .. 2 * Len(rs) :
        old[i] = IF i % 2 = 1 THEN Whole(rs[(i + 1) \div 2]) ELSE Separator
  <2>1. CASE rs = << >>
    BY <2>1
  <2>2. CASE rs # << >>
    <3>1. /\ ListOf(rs) \in Seq(Pieces) /\ Len(ListOf(rs)) = 2 * Len(rs) - 1
          /\ Pending(rs) = <<Separator>> /\ Pending(rs) \in Seq(Pieces)
          /\ Len(Pending(rs)) = 1 /\ Pending(rs)[1] = Separator
      BY <2>2, ListType, PendingType DEF Pending
    <3>2. \A i \in 1 .. 2 * Len(rs) :
            old[i] = IF i <= 2 * Len(rs) - 1 THEN ListOf(rs)[i]
                     ELSE Pending(rs)[i - (2 * Len(rs) - 1)]
      BY <1>1, <3>1, ConcatProperties
    <3>3. \A i \in 1 .. 2 * Len(rs) : i > 2 * Len(rs) - 1 =>
             i = 2 * Len(rs) /\ i - (2 * Len(rs) - 1) = 1 /\ i % 2 # 1
      BY <1>1
    <3> QED
      BY <1>1, <3>1, <3>2, <3>3, ListType
  <2> QED
    BY <2>1, <2>2
<1>7. \A i \in 1 .. 2 * Len(rs) + 1 : ListOf(more)[i] = new[i]
  <2> SUFFICES ASSUME NEW i \in 1 .. 2 * Len(rs) + 1
               PROVE  ListOf(more)[i] = new[i]
    OBVIOUS
  <2>1. CASE i = 2 * Len(rs) + 1
    <3>1. i % 2 = 1 /\ (i + 1) \div 2 = Len(rs) + 1
      BY <1>1, <2>1
    <3>2. more[Len(rs) + 1] = r
      BY <1>1
    <3> HIDE DEF more, new
    <3> QED
      BY <1>2, <1>5, <2>1, <3>1, <3>2
  <2>2. CASE i \in 1 .. 2 * Len(rs)
    <3>1. (i + 1) \div 2 \in 1 .. Len(rs)
      BY <1>1, <2>2
    <3>2. more[(i + 1) \div 2] = rs[(i + 1) \div 2]
      BY <1>1, <3>1
    <3> HIDE DEF more, new, old
    <3> QED
      BY <1>2, <1>5, <1>6, <2>2, <3>2
  <2>3. i = 2 * Len(rs) + 1 \/ i \in 1 .. 2 * Len(rs)
    BY <1>1
  <2> QED
    BY <2>1, <2>2, <2>3, Zenon
<1>8. ListOf(more) = new
  <2> HIDE DEF more, new
  <2> QED
    BY <1>2, <1>5, <1>7, SeqEqual
<1> QED
  BY <1>8
LEMMA AppendToNone == \A y : Append(<< >>, y) = <<y>>
OBVIOUS

LEMMA AppendToOne ==
  ASSUME NEW x, NEW y
  PROVE  Append(<<x>>, y) = <<x, y>>
<1>1. /\ <<x>> \in Seq({x, y}) /\ <<x, y>> \in Seq({x, y})
      /\ Append(<<x>>, y) \in Seq({x, y})
  OBVIOUS
<1>2. Len(Append(<<x>>, y)) = 2 /\ Len(<<x, y>>) = 2
  OBVIOUS
<1>3. \A i \in 1..2 : Append(<<x>>, y)[i] = <<x, y>>[i]
  OBVIOUS
<1> QED
  BY <1>1, <1>2, <1>3, SeqEqual

LEMMA ConcatThree ==
  ASSUME NEW S, NEW s \in Seq(S), NEW t \in Seq(S), NEW u \in Seq(S)
  PROVE  s \o t \o u = s \o (t \o u)
BY ConcatAssociative

LEMMA AppendEnds ==
  ASSUME NEW rs \in Seq(Records), NEW r \in Records
  PROVE  /\ Append(rs, r) \in Seq(Records)
         /\ Append(rs, r) # << >>
         /\ Front(Append(rs, r)) = rs
         /\ Last(Append(rs, r)) = r
<1>1. /\ Append(rs, r) \in Seq(Records) /\ Len(Append(rs, r)) = Len(rs) + 1
      /\ Len(rs) \in Nat /\ Append(rs, r)[Len(rs) + 1] = r
  OBVIOUS
<1>2. Append(rs, r) # << >>
  BY <1>1, EmptySeq
<1>3. Last(Append(rs, r)) = r
  BY <1>1 DEF Last
<1>4. Front(Append(rs, r)) = rs
  <2>1. Front(Append(rs, r)) = SubSeq(Append(rs, r), 1, Len(rs))
    BY <1>1 DEF Front
  <2>2. SubSeq(Append(rs, r), 1, Len(rs)) = rs
    OBVIOUS
  <2> QED
    BY <2>1, <2>2
<1> QED
  BY <1>1, <1>2, <1>3, <1>4

----------------------------------------------------------------------------
(* One file.                                                               *)

LEMMA FileFields ==
  ASSUME NEW f \in FileSet
  PROVE  /\ f.disk \in Seq(Pieces) /\ f.buffer \in Seq(Pieces)
         /\ f.good \in BOOLEAN /\ f.output \in Seq(Records)
         /\ f.truncated \in BOOLEAN /\ f.setBack \in BOOLEAN
         /\ f.path[2] \in Nat
BY DEF FileSet

LEMMA NewFileHealthy ==
  ASSUME NEW ok \in BOOLEAN, TypeOK
  PROVE  /\ NewFile(ok) \in FileSet /\ Healthy(NewFile(ok))
         /\ NewFile(ok).path[2] = now /\ ~NewFile(ok).truncated
<1>1. << >> \in Seq(Pieces) /\ << >> \in Seq(Records)
  BY EmptySeq
<1>2. /\ NewFile(ok).disk = << >> /\ NewFile(ok).buffer = << >>
      /\ NewFile(ok).output = << >> /\ ~NewFile(ok).truncated
      /\ NewFile(ok).path = Path
  BY DEF NewFile
<1>3. Path \in (Folders \cup {WorkingFolder}) \X Nat /\ Path[2] = now
  BY LogAssumption DEF Path, TypeOK
<1>4. NewFile(ok) \in FileSet
  BY <1>1, <1>3 DEF NewFile, FileSet
<1> QED
  BY <1>2, <1>3, <1>4, ListEmpty, Zenon DEF Healthy, Pending

(* The fields that neither the disk nor the stream touches.                *)
SameName(f, g) ==
  g.path = f.path /\ g.truncated = f.truncated /\ g.setBack = f.setBack

(* What output() does to a healthy file, with record r.                    *)
Logged(f, r) == [f EXCEPT !.output = Append(@, r)]

LEMMA LoggedFields ==
  ASSUME NEW f \in FileSet, NEW r \in Records
  PROVE  /\ Logged(f, r) \in FileSet
         /\ Logged(f, r).disk = f.disk /\ Logged(f, r).buffer = f.buffer
         /\ Logged(f, r).good = f.good
         /\ Logged(f, r).output = Append(f.output, r)
         /\ SameName(f, Logged(f, r))
<1>1. Append(f.output, r) \in Seq(Records)
  BY FileFields, AppendEnds
<1>2. /\ Logged(f, r).disk = f.disk /\ Logged(f, r).buffer = f.buffer
      /\ Logged(f, r).good = f.good
      /\ Logged(f, r).output = Append(f.output, r)
      /\ SameName(f, Logged(f, r))
  BY DEF Logged, FileSet, SameName
<1>3. Logged(f, r) \in FileSet
  BY <1>1 DEF Logged, FileSet
<1> QED
  BY <1>2, <1>3

LEMMA FlushedFile ==
  ASSUME NEW f \in FileSet, Healthy(f), NEW r \in Records
  PROVE  LET g == Flushed(Logged(f, r), r)
         IN  g \in FileSet /\ Healthy(g) /\ SameName(f, g)
<1> DEFINE l == Logged(f, r)
           g == Flushed(l, r)
<1>1. /\ l \in FileSet /\ l.disk = f.disk /\ l.buffer = f.buffer
      /\ l.output = Append(f.output, r)
  BY LoggedFields
<1>2. /\ f.disk \in Seq(Pieces) /\ f.buffer \in Seq(Pieces)
      /\ <<Whole(r)>> \in Seq(Pieces) /\ <<Separator>> \in Seq(Pieces)
  BY FileFields, PieceTypes
<1>3. f.disk \o f.buffer \o <<Whole(r)>> \in Seq(Pieces)
  BY <1>2, ConcatProperties
<1>4. /\ g.disk = f.disk \o f.buffer \o <<Whole(r)>>
      /\ g.buffer = <<Separator>> /\ g.output = Append(f.output, r)
  <2> HIDE DEF l
  <2> QED
    BY <1>1 DEF Flushed, FileSet
<1>5. g \in FileSet
  <2> HIDE DEF l
  <2> QED
    BY <1>1, <1>2, <1>3 DEF Flushed, FileSet
<1>6. f.output \in Seq(Records)
  BY FileFields
<1>7. g.disk = ListOf(g.output)
  <2>1. ListOf(Append(f.output, r))
          = ListOf(f.output) \o Pending(f.output) \o <<Whole(r)>>
    BY <1>6, ListAppend
  <2> HIDE DEF g
  <2> QED
    BY <1>4, <2>1, Zenon DEF Healthy
<1>8. g.buffer = Pending(g.output)
  <2>1. Append(f.output, r) # << >>
    BY <1>6, AppendEnds
  <2> HIDE DEF g
  <2> QED
    BY <1>4, <2>1, Zenon DEF Pending
<1>9. SameName(f, g)
  <2>1. SameName(f, l)
    BY LoggedFields
  <2> HIDE DEF l
  <2> QED
    BY <1>1, <2>1 DEF Flushed, FileSet, SameName
<1>10. Healthy(g)
  <2> HIDE DEF g
  <2> QED
    BY <1>7, <1>8 DEF Healthy
<1> QED
  BY <1>5, <1>9, <1>10, Zenon

LEMMA BrokenFile ==
  ASSUME NEW f \in FileSet, Healthy(f), NEW r \in Records,
         NEW g \in FlushFails(Logged(f, r), r)
  PROVE  g \in FileSet /\ Broken(g) /\ SameName(f, g)
<1> DEFINE l == Logged(f, r)
<1>1. /\ l \in FileSet /\ l.disk = f.disk /\ l.buffer = f.buffer
      /\ l.output = Append(f.output, r) /\ SameName(f, l)
  BY LoggedFields
<1> HIDE DEF l
<1>2. PICK torn \in {<< >>, f.buffer, Append(f.buffer, Part(r))} :
        g = [l EXCEPT !.good = FALSE, !.disk = @ \o torn]
  BY <1>1 DEF FlushFails, l
<1>3. /\ f.disk \in Seq(Pieces) /\ f.buffer \in Seq(Pieces)
      /\ f.output \in Seq(Records)
      /\ f.disk = ListOf(f.output)
  BY FileFields DEF Healthy
<1>4. torn \in Seq(Pieces)
  <2>1. << >> \in Seq(Pieces)
    BY EmptySeq
  <2>2. Append(f.buffer, Part(r)) \in Seq(Pieces)
    BY <1>3, PieceTypes
  <2> QED
    BY <1>2, <1>3, <2>1, <2>2, Zenon
<1>5. /\ g.disk = f.disk \o torn /\ g.good = FALSE
      /\ g.output = Append(f.output, r)
  BY <1>1, <1>2 DEF FileSet
<1>6. f.disk \o torn \in Seq(Pieces)
  BY <1>3, <1>4, ConcatProperties
<1>7. g \in FileSet
  BY <1>1, <1>2, <1>6 DEF FileSet
<1>8. /\ g.output # << >> /\ Front(g.output) = f.output
      /\ Last(g.output) = r
  BY <1>3, <1>5, AppendEnds
<1>9. torn \in TornEnds(g)
  <2>1. f.buffer = << >> \/ f.buffer = <<Separator>>
    BY Zenon DEF Healthy, Pending
  <2>2. /\ Append(<< >>, Part(r)) = <<Part(r)>>
        /\ Append(<<Separator>>, Part(r)) = <<Separator, Part(r)>>
    BY AppendToNone, AppendToOne, Zenon
  <2>3. torn \in {<< >>, <<Separator>>, <<Part(r)>>, <<Separator, Part(r)>>}
    BY <1>2, <2>1, <2>2, Zenon
  <2> QED
    BY <1>8, <2>3, Zenon DEF TornEnds
<1>10. Broken(g)
  BY <1>3, <1>5, <1>8, <1>9, Zenon DEF Broken
<1>11. SameName(f, g)
  BY <1>1, <1>2 DEF FileSet, SameName
<1> QED
  BY <1>7, <1>10, <1>11

----------------------------------------------------------------------------
(* The inductive invariant.                                                *)

LEMMA IInvInit == Init => IInv
<1> SUFFICES ASSUME Init PROVE IInv
  OBVIOUS
<1>1. files = << >> /\ files \in Seq(FileSet) /\ DOMAIN files = {}
  BY EmptySeq DEF Init
<1>2. TypeOK
  BY <1>1 DEF Init, TypeOK
<1>3. RunInv
  BY <1>1, EmptySeq DEF Init, RunInv
<1> QED
  BY <1>1, <1>2, <1>3 DEF IInv, FilesInv, NamesInv

(* A step that opens no file and writes to none.                           *)
LEMMA QuietStep ==
  ASSUME IInv, TypeOK', UNCHANGED files,
         \/ first' = first /\ (up' => up) /\ now' >= now
         \/ first' = Len(files) + 1 /\ ~up /\ now' > now
  PROVE  IInv'
<1>1. \A i \in DOMAIN files : i \in 1 .. Len(files) /\ files[i] \in FileSet
  BY DEF IInv, TypeOK
<1>2. /\ Len(files) \in Nat /\ first \in Nat /\ first <= Len(files) + 1
      /\ now \in Nat /\ now' \in Nat
  BY LogAssumption DEF IInv, TypeOK, RunInv
<1>3. RunInv'
  BY <1>2 DEF RunInv
<1>4. ASSUME NEW i \in DOMAIN files
      PROVE  /\ Healthy(files[i]) \/ (Damaged(files[i]) /\ (up' => i < first'))
             /\ \/ files[i].setBack
                \/ /\ ~files[i].truncated /\ files[i].path[2] <= now'
                   /\ (up' /\ i < first') => files[i].path[2] < now'
  <2>1. Healthy(files[i]) \/ (Damaged(files[i]) /\ (up => i < first))
    BY DEF IInv, FilesInv, FileInv
  <2>2. (up => i < first) => (up' => i < first')
    BY <1>1, <1>2
  <2>3. Healthy(files[i]) \/ (Damaged(files[i]) /\ (up' => i < first'))
    BY <2>1, <2>2, Zenon
  <2>4. \/ files[i].setBack
        \/ /\ ~files[i].truncated /\ files[i].path[2] <= now
           /\ (up /\ i < first) => files[i].path[2] < now
    BY DEF IInv, NamesInv, NameInv
  <2>5. files[i].path[2] \in Nat
    BY <1>1, FileFields
  <2>6. \/ files[i].setBack
        \/ /\ ~files[i].truncated /\ files[i].path[2] <= now'
           /\ (up' /\ i < first') => files[i].path[2] < now'
    BY <1>1, <1>2, <2>4, <2>5
  <2> QED
    BY <2>3, <2>6, Zenon
<1>5. FilesInv'
  BY <1>4, Zenon DEF FilesInv, FileInv, Healthy, Damaged, Broken
<1>6. NamesInv'
  BY <1>4, Zenon DEF NamesInv, NameInv
<1> QED
  BY <1>3, <1>5, <1>6 DEF IInv

(* Opening: what the older files may have become, and the new one.         *)
LEMMA OpenEffect ==
  ASSUME IInv, SetLogFile
  PROVE  \E older \in Seq(FileSet), ok \in BOOLEAN :
           /\ files' = Append(older, NewFile(ok)) /\ Len(older) = Len(files)
           /\ \A i \in 1 .. Len(files) :
                \/ older[i] = files[i]
                \/ /\ older[i] = Truncated(files[i])
                   /\ i < first /\ files[i].path = Path
<1>1. files \in Seq(FileSet) /\ first \in Nat \ {0} /\ Len(files) \in Nat
  BY DEF IInv, TypeOK
<1>2. \A i \in first .. Len(files) : files[i].path # Path
  BY DEF SetLogFile, Open
<1>3. CASE files' = Append(files, NewFile(FALSE))
  BY <1>1, <1>3
<1>4. CASE files' = Append(Emptied(files), NewFile(TRUE))
  <2>1. ASSUME NEW i \in 1 .. Len(files)
        PROVE  Truncated(files[i]) \in FileSet
    <3>1. files[i] \in FileSet /\ << >> \in Seq(Pieces)
      BY <1>1, EmptySeq
    <3> QED
      BY <3>1 DEF Truncated, FileSet
  <2>2. /\ Emptied(files) \in Seq(FileSet) /\ Len(Emptied(files)) = Len(files)
        /\ \A i \in 1 .. Len(files) :
             Emptied(files)[i] = IF files[i].path = Path
                                 THEN Truncated(files[i]) ELSE files[i]
    BY <1>1, <2>1 DEF Emptied
  <2>3. \A i \in 1 .. Len(files) : files[i].path = Path => i < first
    BY <1>1, <1>2
  <2> QED
    BY <1>4, <2>2, <2>3
<1> QED
  BY <1>3, <1>4 DEF SetLogFile, Open

LEMMA SetLogFileStep ==
  ASSUME IInv, SetLogFile
  PROVE  IInv'
<1>1. PICK older \in Seq(FileSet), ok \in BOOLEAN :
        /\ files' = Append(older, NewFile(ok)) /\ Len(older) = Len(files)
        /\ \A i \in 1 .. Len(files) :
             \/ older[i] = files[i]
             \/ /\ older[i] = Truncated(files[i])
                /\ i < first /\ files[i].path = Path
  BY OpenEffect
<1>2. /\ up /\ os_' = Len(files')
      /\ UNCHANGED <<up, first, log_folder_, folders, data_, now>>
  BY DEF SetLogFile, Open
<1>3. /\ NewFile(ok) \in FileSet /\ Healthy(NewFile(ok))
      /\ NewFile(ok).path[2] = now /\ ~NewFile(ok).truncated
  BY NewFileHealthy DEF IInv
<1>4. files \in Seq(FileSet) /\ Len(files) \in Nat /\ first \in Nat \ {0}
      /\ now \in Nat
  BY LogAssumption DEF IInv, TypeOK
<1>5. /\ files' \in Seq(FileSet) /\ Len(files') = Len(files) + 1
      /\ \A i \in 1 .. Len(files) : files'[i] = older[i]
      /\ files'[Len(files) + 1] = NewFile(ok)
  BY <1>1, <1>3, <1>4
<1>6. first <= Len(files) + 1
  BY DEF IInv, RunInv
<1>7. TypeOK' /\ RunInv'
  BY <1>2, <1>4, <1>5, <1>6 DEF IInv, TypeOK, RunInv
<1>8. ASSUME NEW i \in DOMAIN files'
      PROVE  FileInv(files'[i], i) /\ NameInv(files'[i], i)
  <2>0. i \in 1 .. Len(files) + 1
    BY <1>5
  <2>1. CASE i = Len(files) + 1
    <3>1. files'[i] = NewFile(ok) /\ ~(i < first)
      BY <1>4, <1>5, <1>6, <2>1
    <3>2. now <= now
      BY <1>4
    <3> QED
      BY <1>3, <3>1, <3>2, Zenon DEF FileInv, NameInv
  <2>2. CASE i \in 1 .. Len(files)
    <3>1. i \in DOMAIN files /\ files'[i] = older[i] /\ files[i] \in FileSet
      BY <1>4, <1>5, <2>2
    <3>2. FileInv(files[i], i) /\ NameInv(files[i], i)
      BY <3>1, Zenon DEF IInv, FilesInv, NamesInv
    <3>3. CASE older[i] = files[i]
      BY <3>1, <3>2, <3>3, Zenon
    <3>4. CASE /\ older[i] = Truncated(files[i])
               /\ i < first /\ files[i].path = Path
      <4>1. files'[i].truncated /\ files'[i].setBack = files[i].setBack
        BY <3>1, <3>4 DEF Truncated, FileSet
      <4>2. files[i].setBack
        BY <1>2, <1>4, <3>2, <3>4 DEF NameInv, Path
      <4> QED
        BY <3>4, <4>1, <4>2, Zenon DEF FileInv, Damaged, NameInv
    <3> QED
      BY <1>1, <2>2, <3>3, <3>4, Zenon
  <2> QED
    BY <1>4, <2>0, <2>1, <2>2
<1>9. FilesInv' /\ NamesInv'
  BY <1>2, <1>8, Zenon
  DEF FilesInv, FileInv, NamesInv, NameInv, Healthy, Damaged, Broken
<1> QED
  BY <1>7, <1>9 DEF IInv

(* The one file that output() writes to.                                   *)
LEMMA OutputEffect ==
  ASSUME IInv, NEW side \in Sides, Output(side)
  PROVE  \E g \in FileSet :
           /\ os_ \in 1 .. Len(files) /\ files' = [files EXCEPT ![os_] = g]
           /\ SameName(files[os_], g)
           /\ Healthy(g) \/ (Broken(g) /\ ~up')
<1>1. /\ os_ \in first .. Len(files) /\ up /\ first \in Nat \ {0}
      /\ files \in Seq(FileSet) /\ Len(files) \in Nat
  BY DEF Output, CanOutput, IInv, TypeOK, NoStream
<1>2. os_ \in 1 .. Len(files) /\ ~(os_ < first)
  BY <1>1
<1> DEFINE f == files[os_]
           r == Record(side)
<1>3. f \in FileSet /\ Healthy(f)
  BY <1>1, <1>2 DEF IInv, FilesInv, FileInv
<1>4. r \in Records
  BY DEF Record, Records, IInv, TypeOK
<1>5. Given(side) = Logged(f, r)
  BY DEF Given, Logged
<1>6. CASE Written(side)
  BY <1>2, <1>3, <1>4, <1>5, <1>6, FlushedFile DEF Written
<1>7. CASE NotWritten(side) /\ ~up'
  BY <1>2, <1>3, <1>4, <1>5, <1>7, BrokenFile DEF NotWritten
<1> QED
  BY <1>6, <1>7 DEF Output

LEMMA OutputStep ==
  ASSUME IInv, NEW side \in Sides, Output(side)
  PROVE  IInv'
<1>1. PICK g \in FileSet :
        /\ os_ \in 1 .. Len(files) /\ files' = [files EXCEPT ![os_] = g]
        /\ SameName(files[os_], g)
        /\ Healthy(g) \/ (Broken(g) /\ ~up')
  BY OutputEffect
<1>2. /\ up' \in BOOLEAN /\ up
      /\ UNCHANGED <<first, log_folder_, folders, os_, data_, now>>
  BY DEF Output, CanOutput, IInv, TypeOK
<1>3. files \in Seq(FileSet)
  BY DEF IInv, TypeOK
<1>4. /\ files' \in Seq(FileSet) /\ Len(files') = Len(files)
      /\ \A i \in 1 .. Len(files) :
           files'[i] = IF i = os_ THEN g ELSE files[i]
  BY <1>1, <1>3, ExceptSeq
<1>5. TypeOK' /\ RunInv'
  BY <1>2, <1>4 DEF IInv, TypeOK, RunInv
<1>6. ASSUME NEW i \in DOMAIN files'
      PROVE  /\ Healthy(files'[i]) \/ (Damaged(files'[i]) /\ (up' => i < first'))
             /\ NameInv(files'[i], i)
  <2>1. i \in 1 .. Len(files) /\ i \in DOMAIN files
    BY <1>3, <1>4
  <2>2. FileInv(files[i], i) /\ NameInv(files[i], i)
    BY <2>1, Zenon DEF IInv, FilesInv, NamesInv
  <2>3. CASE i = os_
    <3>1. files'[i] = g
      BY <1>4, <2>1, <2>3
    <3>2. NameInv(g, i)
      BY <1>1, <2>2, <2>3 DEF SameName, NameInv
    <3> QED
      BY <1>1, <3>1, <3>2, Zenon DEF Damaged
  <2>4. CASE i # os_
    <3>1. files'[i] = files[i]
      BY <1>4, <2>1, <2>4
    <3> QED
      BY <1>2, <2>2, <3>1, Zenon DEF FileInv
  <2> QED
    BY <2>3, <2>4
<1>7. FilesInv'
  BY <1>6, Zenon DEF FilesInv, FileInv, Healthy, Damaged, Broken
<1>8. NamesInv'
  <2>1. up' => up
    BY <1>2
  <2> QED
    BY <1>2, <1>6, <2>1, Zenon DEF NamesInv, NameInv
<1> QED
  BY <1>5, <1>7, <1>8 DEF IInv

LEMMA SetBackStep ==
  ASSUME IInv, SetBack
  PROVE  IInv'
<1>1. /\ files' = [f \in DOMAIN files |-> [files[f] EXCEPT !.setBack = TRUE]]
      /\ now' \in 0 .. now - 1
      /\ UNCHANGED <<up, first, log_folder_, folders, os_, data_>>
  BY DEF SetBack
<1>2. files \in Seq(FileSet) /\ now \in 0 .. MaxClock /\ MaxClock \in Nat
  BY LogAssumption DEF IInv, TypeOK
<1>3. ASSUME NEW i \in 1 .. Len(files)
      PROVE  LET g == [files[i] EXCEPT !.setBack = TRUE]
             IN  /\ g \in FileSet /\ g.setBack
                 /\ g.disk = files[i].disk /\ g.buffer = files[i].buffer
                 /\ g.output = files[i].output /\ g.good = files[i].good
                 /\ g.truncated = files[i].truncated
  <2>1. files[i] \in FileSet
    BY <1>2
  <2> QED
    BY <2>1 DEF FileSet
<1>4. /\ files' \in Seq(FileSet) /\ Len(files') = Len(files)
      /\ \A i \in 1 .. Len(files) :
           files'[i] = [files[i] EXCEPT !.setBack = TRUE]
  <2> DEFINE G(i) == [files[i] EXCEPT !.setBack = TRUE]
  <2>1. \A i \in 1 .. Len(files) : G(i) \in FileSet
    BY <1>3
  <2>2. files' = [i \in 1 .. Len(files) |-> G(i)] /\ Len(files) \in Nat
    BY <1>1, <1>2
  <2> HIDE DEF G
  <2>3. /\ files' \in Seq(FileSet) /\ Len(files') = Len(files)
        /\ \A i \in 1 .. Len(files) : files'[i] = G(i)
    BY <2>1, <2>2
  <2> QED
    BY <2>3 DEF G
<1>5. TypeOK' /\ RunInv'
  BY <1>1, <1>2, <1>4 DEF IInv, TypeOK, RunInv
<1>6. ASSUME NEW i \in DOMAIN files'
      PROVE  FileInv(files'[i], i) /\ files'[i].setBack
  <2>1. i \in 1 .. Len(files) /\ i \in DOMAIN files
    BY <1>2, <1>4
  <2>2. FileInv(files[i], i)
    BY <2>1, Zenon DEF IInv, FilesInv
  <2> QED
    BY <1>3, <1>4, <2>1, <2>2
    DEF FileInv, Healthy, Damaged, Broken, TornEnds
<1>7. FilesInv' /\ NamesInv'
  BY <1>1, <1>6, Zenon
  DEF FilesInv, FileInv, NamesInv, NameInv, Healthy, Damaged, Broken
<1> QED
  BY <1>5, <1>7 DEF IInv

LEMMA IInvStep == IInv /\ [Next]_vars => IInv'
<1> SUFFICES ASSUME IInv, [Next]_vars PROVE IInv'
  OBVIOUS
<1>0. now \in Nat /\ MaxClock \in Nat /\ now \in 0 .. MaxClock
  BY LogAssumption DEF IInv, TypeOK
<1>1. ASSUME NEW folder \in Folders, SetLogFolder(folder) PROVE IInv'
  <2>1. TypeOK'
    BY <1>1 DEF SetLogFolder, IInv, TypeOK
  <2> QED
    BY <1>0, <1>1, <2>1, QuietStep DEF SetLogFolder
<1>2. ASSUME NEW s \in first .. Len(files), SetLogStream(s) PROVE IInv'
  <2>1. TypeOK'
    BY <1>2 DEF SetLogStream, IInv, TypeOK
  <2> QED
    BY <1>0, <1>2, <2>1, QuietStep DEF SetLogStream
<1>3. ASSUME NEW figures \in Figures, SetLogData(figures) PROVE IInv'
  <2>1. TypeOK'
    BY <1>3 DEF SetLogData, IInv, TypeOK
  <2> QED
    BY <1>0, <1>3, <2>1, QuietStep DEF SetLogData
<1>4. CASE Die
  <2>1. TypeOK'
    BY <1>4 DEF Die, IInv, TypeOK
  <2> QED
    BY <1>0, <1>4, <2>1, QuietStep DEF Die
<1>5. CASE Restart
  <2>1. TypeOK' /\ first' = Len(files) + 1 /\ now' > now /\ ~up
    BY <1>0, <1>5 DEF Restart, IInv, TypeOK, RunInv
  <2> QED
    BY <1>5, <2>1, QuietStep DEF Restart
<1>6. CASE Tick
  <2>1. TypeOK' /\ now' > now
    BY <1>0, <1>6 DEF Tick, IInv, TypeOK
  <2> QED
    BY <1>0, <1>6, <2>1, QuietStep DEF Tick
<1>7. CASE UNCHANGED vars
  <2>1. TypeOK'
    BY <1>7 DEF vars, IInv, TypeOK
  <2> QED
    BY <1>0, <1>7, <2>1, QuietStep DEF vars
<1> QED
  BY <1>1, <1>2, <1>3, <1>4, <1>5, <1>6, <1>7,
     SetLogFileStep, OutputStep, SetBackStep
  DEF Next

LEMMA Invariance == Spec => []IInv
BY IInvInit, IInvStep, PTL DEF Spec

----------------------------------------------------------------------------
(* The variables keep their types.                                         *)
THEOREM LogTypeCorrect == Spec => []TypeOK
BY Invariance, PTL DEF IInv

(* Whoever reads a log at any time finds the list of what was logged, but  *)
(* for the last record of a run that ended in a write error, and for a log *)
(* whose path was taken.                                                   *)
THEOREM FilesShowTheLog == Spec => []FileShowsLog
<1>1. IInv => FileShowsLog
  BY DEF IInv, FilesInv, FileInv, Healthy, Damaged, Broken, FileShowsLog
<1> QED
  BY <1>1, Invariance, PTL

(* A bot that goes on has logged everything (GB_LogData.cpp:65-71).        *)
THEOREM LogHasNoGaps == Spec => []NoGaps
<1>1. IInv => NoGaps
  <2> SUFFICES ASSUME IInv, up, NEW i \in first .. Len(files)
               PROVE  files[i].disk = ListOf(files[i].output)
    BY DEF NoGaps
  <2>1. i \in DOMAIN files /\ ~(i < first)
    BY DEF IInv, TypeOK
  <2> QED
    BY <2>1 DEF IInv, FilesInv, FileInv, Healthy
<1> QED
  BY <1>1, Invariance, PTL

(* A log is emptied only under a clock that was set back since the log was *)
(* opened, over any number of runs (GodBot.cpp:61, GB_Logger.cpp:17).      *)
THEOREM LogsOutliveRestarts == Spec => []LogsSurvive
<1>1. IInv => LogsSurvive
  BY DEF IInv, NamesInv, NameInv, LogsSurvive
<1> QED
  BY <1>1, Invariance, PTL

===============================================================================
