------------------------ MODULE FileRequest_proofs ------------------------
(***************************************************************************)
(* Proofs about FileRequest, for every tree, every set of URLs and every   *)
(* number of edits and requests.                                           *)
(*                                                                         *)
(* NotModifiedMeansSame and WholeAnswer are about a request that is over.  *)
(* What makes them true is spread over the whole life of it: Disk says     *)
(* that a version names one content, Snapshot that the stat taken when the *)
(* request was looked up is of such a version, Sending that the body has   *)
(* only blocks of it as long as the inode has it, KeptCopy that a client   *)
(* whose copy has the date of the file has the file, and Validated that    *)
(* the validators of a request were taken from that copy.                  *)
(*                                                                         *)
(* ServesNamedFile is about what a URL is taken for.  canonpath scans a    *)
(* path once and puts characters out as it goes; Resolved cuts it at the   *)
(* slashes.  Tracks says what the scan has come to within a segment,       *)
(* Follows that it agrees with the segments before it; both go from one    *)
(* character to the next.  path_lookup tries the path up to each slash,    *)
(* and what it ends at is the beginning of the whole path, resolved, as    *)
(* nothing is there beneath a file (NothingLater).                         *)
(***************************************************************************)
EXTENDS FileRequest, SequenceLemmas

Whole(s) == [i \in 1..s.size |-> s.ver]

(* What makes a request conditional on the file having changed.            *)
Matches(h, s) == \/ h.ims # NoDate /\ h.ims >= s.mtime
                 \/ h.inm # NoTags /\ Lists(h.inm, Etag(s))

(* The request is a record; only some of its fields have a type of use.    *)
Statuses == {0, 200, 302, 304, 403, 404, 412}
Requests(url, headers, phys) ==
  [pc : {"idle", "found", "send"}, url : {url}, method : {"GET", "HEAD", "POST"},
   headers : {headers}, phys : {phys}, s : Stats, fd : Inodes, open : BOOLEAN,
   body : Seq(Inodes), status : Statuses,
   broken : BOOLEAN, errors : 0..MaxReadErrors]
Fields ==
  /\ file \in Requests(file.url, file.headers, file.phys)
  /\ file.open = (file.pc = "send")

Disk ==
  /\ inodes \in [Inodes -> Stats]
  /\ edits \in 0..MaxEdits
  /\ doc \in 0..edits + 1
  /\ backdated \in BOOLEAN
  /\ inodes[0] = [NoStat EXCEPT !.size = 1]
  /\ \A i \in Inodes : inodes[i].ver <= edits + 1
  /\ \A i \in Inodes : i # 0 => inodes[i].size <= MaxSize
  /\ doc # 0 => inodes[doc].ver = edits + 1 /\ inodes[doc].ino = doc
  /\ \A i, j \in Inodes : inodes[i].ver = inodes[j].ver /\ inodes[i].ver # 0 => i = j
  /\ ~backdated => \A i \in Inodes : inodes[i].mtime = inodes[i].ver

Snapshot ==
  /\ file.s.ver <= edits + 1
  /\ ~backdated => file.s.mtime = file.s.ver
  /\ file.s.ver # 0 => \A i \in Inodes : inodes[i].ver = file.s.ver => inodes[i] = file.s
  /\ file.pc # "idle" /\ file.phys = Doc =>
       file.s.ver # 0 /\ file.s.ino # 0 /\ file.s.size <= MaxSize
  /\ file.pc # "idle" /\ file.phys # Doc => file.s = [NoStat EXCEPT !.size = 1]

Sending ==
  /\ file.pc = "found" => file.body = <<>>
  /\ file.pc = "send" =>
       /\ file.phys = Doc /\ file.s.ver = edits + 1 => file.fd = doc
       /\ file.phys # Doc => file.fd = 0
       /\ inodes[file.fd].ver = file.s.ver =>
            /\ Len(file.body) <= file.s.size
            /\ \A i \in 1..Len(file.body) : file.body[i] = file.s.ver

KeptCopy ==
  /\ copy.etag \in Etags
  /\ copy.mtime \in Inodes
  /\ copy.body \in Seq(Inodes)
  /\ copy.etag # AnyTag /\ ~backdated =>
       /\ copy.etag[3] = copy.mtime
       /\ copy.mtime <= edits + 1
       /\ doc # 0 /\ inodes[doc].ver = copy.mtime => copy.body = Whole(inodes[doc])

Validated ==
  /\ file.pc = "found" /\ ~backdated /\ file.headers.inm # <<AnyTag>>
  /\ Matches(file.headers, file.s)
  => copy.body = Whole(file.s)

FileInv ==
  /\ Fields /\ Disk /\ Snapshot /\ Sending /\ KeptCopy /\ Validated
  /\ NotModifiedMeansSame /\ WholeAnswer
  /\ files \in 0..MaxFiles

-----------------------------------------------------------------------------
(* canonpath and path_lookup.                                              *)

(* What the segments of a resolved path are: no slash, and not nothing.  *)
Names == {s \in Seq(Chars) : s # <<>> /\ \A i \in 1..Len(s) : s[i] # "/"}

(* The characters that canonpath tells apart, and the empty path.        *)
LEMMA CharTypes ==
    /\ "/" \in Chars /\ "." \in Chars /\ "end" \notin Chars
    /\ <<"/">> \in Seq(Chars) /\ <<>> \in Seq(Chars)
  BY CharAssumption

(* No segments make no path.                                             *)
LEMMA JoinedNothing == Joined(<<>>) = <<>>
<1>1. FlattenSeq(<<>>) = <<>>
  BY DEF FlattenSeq
<1>2. [k \in DOMAIN <<>> |-> <<"/">> \o <<>>[k]] = <<>>
  OBVIOUS
<1> QED
  BY <1>1, <1>2 DEF Joined

(* Each segment with its slash.                                          *)
LEMMA NamesWithSlash ==
    ASSUME NEW segs \in Seq(Names)
    PROVE  [k \in DOMAIN segs |-> <<"/">> \o segs[k]] \in Seq(Seq(Chars))
<1>1. \A k \in DOMAIN segs : segs[k] \in Seq(Chars)
  BY ElementOfSeq DEF Names
<1>2. \A k \in DOMAIN segs : <<"/">> \o segs[k] \in Seq(Chars)
  BY <1>1, CharTypes, ConcatProperties
<1>3. DOMAIN segs = 1..Len(segs) /\ Len(segs) \in Nat
  OBVIOUS
<1> QED
  BY <1>2, <1>3

(* Joined segments are a path.                                           *)
LEMMA JoinedType ==
    ASSUME NEW segs \in Seq(Names)
    PROVE  Joined(segs) \in Seq(Chars)
  BY NamesWithSlash, FlattenType DEF Joined

(* One more segment comes last.                                          *)
LEMMA JoinedAppend ==
    ASSUME NEW segs \in Seq(Names), NEW s \in Names
    PROVE  Joined(Append(segs, s)) = Joined(segs) \o (<<"/">> \o s)
<1> DEFINE n == Len(segs)
           t == Append(segs, s)
           p == [k \in DOMAIN segs |-> <<"/">> \o segs[k]]
           x == <<"/">> \o s
           q == [k \in DOMAIN t |-> <<"/">> \o t[k]]
<1>1. p \in Seq(Seq(Chars)) /\ x \in Seq(Chars)
  <2>1. x \in Seq(Chars)
    BY CharTypes, ConcatProperties DEF Names
  <2> QED
    BY <2>1, NamesWithSlash
<1>2. /\ t \in Seq(Names) /\ Len(t) = n + 1 /\ n \in Nat
      /\ \A k \in 1..n : t[k] = segs[k]
      /\ t[n + 1] = s
  BY AppendProperties
<1>3. q = Append(p, x)
  <2>1. Len(p) = n /\ \A k \in 1..n : p[k] = <<"/">> \o segs[k]
    BY <1>2
  <2>2. q \in Seq(Seq(Chars)) /\ Len(q) = n + 1
        /\ \A k \in 1..(n + 1) : q[k] = <<"/">> \o t[k]
    <3>1. q \in Seq(Seq(Chars))
      BY <1>2, NamesWithSlash
    <3>2. DOMAIN t = 1..(n + 1)
      BY <1>2
    <3> QED
      BY <1>2, <3>1, <3>2
  <2> HIDE DEF p, q, t, n
  <2>3. /\ Append(p, x) \in Seq(Seq(Chars)) /\ Len(Append(p, x)) = n + 1
        /\ \A k \in 1..n : Append(p, x)[k] = p[k]
        /\ Append(p, x)[n + 1] = x
    BY <1>1, <2>1, AppendProperties
  <2>4. ASSUME NEW k \in 1..(n + 1) PROVE q[k] = Append(p, x)[k]
    <3>1. CASE k \in 1..n
      BY <1>2, <2>1, <2>2, <2>3, <3>1
    <3>2. CASE k = n + 1
      BY <1>2, <2>2, <2>3, <3>2
    <3>3. n \in Nat
      BY <1>2
    <3>4. k \in 1..n \/ k = n + 1
      BY <3>3
    <3> QED
      BY <3>1, <3>2, <3>4
  <2> QED
    BY <2>2, <2>3, <2>4, SeqEqual
<1> HIDE DEF p, q, x
<1>4. FlattenSeq(q) = FlattenSeq(p) \o x
  BY <1>1, <1>3, FlattenLast
<1> QED
  BY <1>4 DEF Joined, p, q, x

(* A path of segments does not end in a slash.                           *)
LEMMA JoinedEnds ==
    ASSUME NEW segs \in Seq(Names), segs # <<>>
    PROVE  /\ Joined(segs) # <<>>
           /\ Last(Joined(segs)) # "/"
           /\ Joined(segs)[Len(Joined(segs))] # "/"
<1>1. PICK f \in Seq(Names), s \in Names : segs = Append(f, s)
  BY SplitLast
<1> DEFINE a == Joined(f)
           j == a \o (<<"/">> \o s)
<1>2. Joined(segs) = j
  BY <1>1, JoinedAppend
<1>3. a \in Seq(Chars)
  BY JoinedType
<1>4. s \in Seq(Chars) /\ s # <<>> /\ \A i \in 1..Len(s) : s[i] # "/"
  BY DEF Names
<1> HIDE DEF a
<1>5. PICK n \in Nat : n = Len(s)
  BY <1>4
<1>6. PICK m \in Nat : m = Len(a)
  BY <1>3
<1>7. n # 0 /\ s[n] # "/"
  BY <1>4, <1>5, EmptySeq
<1>8. PICK t : t = <<"/">> \o s
  OBVIOUS
<1>9. t \in Seq(Chars) /\ Len(t) = n + 1 /\ t[n + 1] = s[n]
  <2>1. Len(<<"/">>) = 1
    OBVIOUS
  <2> QED
    BY <1>4, <1>5, <1>7, <1>8, <2>1, CharTypes, ConcatProperties
<1>10. Len(a \o t) = m + n + 1 /\ (a \o t)[m + n + 1] = s[n] /\ a \o t \in Seq(Chars)
  <2>1. Len(a \o t) = m + (n + 1) /\ a \o t \in Seq(Chars)
    BY <1>3, <1>6, <1>9, ConcatProperties
  <2>2. PICK k : k = m + n + 1
    OBVIOUS
  <2>3. k > m /\ k - m = n + 1 /\ k \in 1..(m + (n + 1))
    BY <2>2
  <2>4. (a \o t)[k] = t[k - m]
    BY <1>3, <1>6, <1>9, <2>1, <2>3, ConcatProperties
  <2> QED
    BY <1>9, <2>1, <2>2, <2>3, <2>4
<1>11. PICK b : b = a \o t
  OBVIOUS
<1>12. j = b
  BY <1>8, <1>11
<1>13. b # <<>> /\ Last(b) = s[n] /\ b[Len(b)] = s[n]
  <2>1. b \in Seq(Chars) /\ Len(b) = m + n + 1 /\ b[m + n + 1] = s[n]
    BY <1>10, <1>11
  <2>2. Last(b) = b[Len(b)]
    BY DEF Last
  <2>3. Len(b) # 0
    BY <2>1
  <2> QED
    BY <2>1, <2>2, <2>3, EmptySeq
<1> QED
  BY <1>2, <1>7, <1>12, <1>13

(* The parent of a path lacks the last segment and its slash.            *)
LEMMA ParentOf ==
    ASSUME NEW a \in Seq(Chars), NEW s \in Names
    PROVE  Parent(a \o (<<"/">> \o s)) = a
<1>4. s \in Seq(Chars) /\ \A i \in 1..Len(s) : s[i] # "/"
  BY DEF Names
<1>5. PICK n \in Nat : n = Len(s)
  BY <1>4
<1>6. PICK m \in Nat : m = Len(a)
  OBVIOUS
<1>8. PICK t : t = <<"/">> \o s
  OBVIOUS
<1>9. t \in Seq(Chars) /\ Len(t) = n + 1 /\ t[1] = "/" /\ \A i \in 2..(n + 1) : t[i] # "/"
  <2>1. PICK u : u = <<"/">>
    OBVIOUS
  <2>2. u \in Seq(Chars) /\ Len(u) = 1 /\ u[1] = "/"
    BY <2>1, CharTypes
  <2>3. t \in Seq(Chars) /\ Len(t) = 1 + n
    BY <1>4, <1>5, <1>8, <2>1, <2>2, ConcatProperties
  <2>4. ASSUME NEW i \in 1..(n + 1) PROVE t[i] = IF i <= 1 THEN u[i] ELSE s[i - 1]
    BY <1>4, <1>5, <1>8, <2>1, <2>2, ConcatProperties
  <2>5. t[1] = "/"
    BY <2>2, <2>4
  <2>6. ASSUME NEW i \in 2..(n + 1) PROVE t[i] # "/"
    <3>1. i \in 1..(n + 1) /\ ~(i <= 1) /\ i - 1 \in 1..n
      OBVIOUS
    <3>2. t[i] = s[i - 1]
      BY <2>4, <3>1
    <3> QED
      BY <1>4, <1>5, <3>1, <3>2
  <2> QED
    BY <2>3, <2>5, <2>6
<1>10. PICK c : c = a \o t
  OBVIOUS
<1>11. /\ c \in Seq(Chars) /\ Len(c) = m + n + 1
       /\ \A i \in 1..m : c[i] = a[i]
       /\ c[m + 1] = "/"
       /\ \A i \in (m + 2)..(m + n + 1) : c[i] # "/"
  <2>1. c \in Seq(Chars) /\ Len(c) = m + (n + 1)
    <3>1. a \o t \in Seq(Chars) /\ Len(a \o t) = Len(a) + Len(t)
      BY <1>9, ConcatProperties
    <3> QED
      BY <1>6, <1>9, <1>10, <3>1
  <2>2. ASSUME NEW i \in 1..(m + (n + 1)) PROVE c[i] = IF i <= m THEN a[i] ELSE t[i - m]
    BY <1>6, <1>9, <1>10, ConcatProperties
  <2>3. ASSUME NEW i \in 1..m PROVE c[i] = a[i]
    <3>1. i \in 1..(m + (n + 1)) /\ i <= m
      OBVIOUS
    <3> QED
      BY <2>2, <3>1
  <2>4. c[m + 1] = "/"
    <3>1. PICK k : k = m + 1
      OBVIOUS
    <3>2. k \in 1..(m + (n + 1)) /\ ~(k <= m) /\ k - m = 1
      BY <3>1
    <3> QED
      BY <1>9, <2>2, <3>1, <3>2
  <2>5. ASSUME NEW i \in (m + 2)..(m + n + 1) PROVE c[i] # "/"
    <3>1. i \in 1..(m + (n + 1)) /\ ~(i <= m) /\ i - m \in 2..(n + 1)
      OBVIOUS
    <3> QED
      BY <1>9, <2>2, <3>1
  <2>6. m + (n + 1) = m + n + 1
    OBVIOUS
  <2> QED
    BY <2>1, <2>3, <2>4, <2>5, <2>6
<1>12. LastSlash(c) = m + 1
  <2> DEFINE S == {i \in DOMAIN c : c[i] = "/"} \cup {1}
  <2>1. DOMAIN c = 1..(m + n + 1)
    BY <1>11
  <2>2. S \subseteq Nat /\ m + 1 \in S
    BY <1>11, <2>1
  <2>3. ASSUME NEW y \in S PROVE y <= m + 1
    <3>1. y = 1 \/ (y \in 1..(m + n + 1) /\ c[y] = "/")
      BY <2>1
    <3>2. y \notin (m + 2)..(m + n + 1) \/ y = 1
      BY <1>11, <3>1
    <3> QED
      BY <3>1, <3>2
  <2> HIDE DEF S
  <2>4. Max(S) = m + 1
    BY <2>2, <2>3, MaxIs
  <2> QED
    BY <2>4 DEF LastSlash, S
<1>13. Parent(c) = a
  <2>1. (m + 1) - 1 = m
    OBVIOUS
  <2>2. Parent(c) = SubSeq(c, 1, m)
    BY <1>12, <2>1 DEF Parent
  <2>3. SubSeq(c, 1, m) = [i \in 1..m |-> c[i]]
    BY <1>11
  <2>4. a = [i \in 1..m |-> a[i]]
    BY <1>6
  <2> QED
    BY <1>11, <2>2, <2>3, <2>4
<1> QED
  BY <1>8, <1>10, <1>13

(* At the root two dots take back nothing.                               *)
LEMMA ParentOfNothing == Parent(<<>>) = <<>>
<1>1. LastSlash(<<>>) = 1
  <2>1. {i \in DOMAIN <<>> : <<>>[i] = "/"} \cup {1} = {1}
    OBVIOUS
  <2>2. Max({1}) = 1
    BY MaxIs
  <2> QED
    BY <2>1, <2>2 DEF LastSlash
<1>2. SubSeq(<<>>, 1, 0) = <<>>
  OBVIOUS
<1> QED
  BY <1>1, <1>2 DEF Parent

(* Two dots take back a segment.                                           *)
LEMMA ParentOfJoined ==
    ASSUME NEW segs \in Seq(Names)
    PROVE  Parent(Joined(segs)) = Joined(IF segs = <<>> THEN segs ELSE Front(segs))
<1>1. CASE segs = <<>>
  BY <1>1, JoinedNothing, ParentOfNothing
<1>2. CASE segs # <<>>
  <2>1. /\ Front(segs) \in Seq(Names) /\ Last(segs) \in Names
        /\ segs = Append(Front(segs), Last(segs))
    BY <1>2, SplitLast
  <2>2. Joined(segs) = Joined(Front(segs)) \o (<<"/">> \o Last(segs))
    BY <2>1, JoinedAppend
  <2>3. Joined(Front(segs)) \in Seq(Chars)
    BY <2>1, JoinedType
  <2> QED
    BY <1>2, <2>1, <2>2, <2>3, ParentOf
<1> QED
  BY <1>1, <1>2

(* f holds what Canon keeps after each of the first n characters.        *)
Scans(f, path, n) ==
  f = [i \in 0..n |-> IF i = 0 THEN [from |-> 1, out |-> <<>>]
                      ELSE CanonStep(path, i, f[i - 1])]

(* There is such a function.                                             *)
LEMMA ScansExists ==
    ASSUME NEW path, NEW n \in Nat
    PROVE  \E f : Scans(f, path, n)
<1> DEFINE T == {m \in Nat : \E f : Scans(f, path, m)}
           start == [from |-> 1, out |-> <<>>]
<1>1. 0 \in T
  <2> DEFINE f == [i \in 0..0 |-> start]
  <2>1. f = [i \in 0..0 |-> IF i = 0 THEN start ELSE CanonStep(path, i, f[i - 1])]
    <3> HIDE DEF start
    <3> QED
      OBVIOUS
  <2>2. Scans(f, path, 0)
    BY <2>1, Zenon DEF Scans
  <2> QED
    BY <2>2
<1>2. ASSUME NEW m \in Nat, m \in T PROVE m + 1 \in T
  <2>1. PICK g : Scans(g, path, m)
    BY <1>2
  <2> DEFINE h == [i \in 0..(m + 1) |->
                     IF i = m + 1 THEN CanonStep(path, i, g[m]) ELSE g[i]]
  <2>2. \A i \in 0..m : g[i] = IF i = 0 THEN start ELSE CanonStep(path, i, g[i - 1])
    BY <2>1 DEF Scans
  <2> HIDE DEF start
  <2>3. \A i \in 0..(m + 1) : h[i] = IF i = 0 THEN start ELSE CanonStep(path, i, h[i - 1])
    BY <2>2
  <2>4. Scans(h, path, m + 1)
    <3> HIDE DEF h
    <3>1. h = [i \in 0..(m + 1) |-> h[i]]
      BY DEF h
    <3>2. h = [i \in 0..(m + 1) |-> IF i = 0 THEN start ELSE CanonStep(path, i, h[i - 1])]
      BY <2>3, <3>1
    <3> QED
      BY <3>2, Zenon DEF Scans, start
  <2> QED
    BY <2>4
<1> HIDE DEF T
<1>3. n \in T
  BY <1>1, <1>2, Induction
<1> QED
  BY <1>3 DEF T

(* What canonpath returns of the output it collected.                      *)
Cleaned(out) ==
  CASE out = <<>> -> <<"/">>
    [] Len(out) > 1 /\ Last(out) = "/" -> Front(out)
    [] OTHER -> out

(* So Canon reads its last value.                                        *)
LEMMA CanonUnfolds ==
    ASSUME NEW path, Len(path) \in Nat
    PROVE  \E f : Scans(f, path, Len(path)) /\ Canon(path) = Cleaned(f[Len(path)].out)
<1> DEFINE F == CHOOSE f : Scans(f, path, Len(path))
<1>1. Scans(F, path, Len(path))
  BY ScansExists
<1>2. Canon(path) = Cleaned(F[Len(path)].out)
  BY Zenon DEF Canon, Cleaned, Scans
<1> QED
  BY <1>1, <1>2

(* Its values, one step at a time.                                       *)
LEMMA ScanValues ==
    ASSUME NEW path, NEW n \in Nat, NEW f, Scans(f, path, n)
    PROVE  /\ f[0] = [from |-> 1, out |-> <<>>]
           /\ \A i \in 1..n : f[i] = CanonStep(path, i, f[i - 1])
<1>1. \A i \in 0..n : f[i] = IF i = 0 THEN [from |-> 1, out |-> <<>>]
                             ELSE CanonStep(path, i, f[i - 1])
  BY DEF Scans
<1> QED
  BY <1>1

(* What position i adds to the segments.                                 *)
SegStep(path, i, was) ==
  IF CharAt(path, i) \in SlashOrEnd THEN WithSegment(was, Segment(path, i)) ELSE was

(* g holds the segments that Resolved keeps before each position up to n.*)
Segmented(g, path, n) ==
  g = [i \in 1..n |->
         CASE i = 1 -> <<>>
           [] i > 1 /\ CharAt(path, i) \in SlashOrEnd ->
                WithSegment(g[i - 1], Segment(path, i))
           [] OTHER -> g[i - 1]]

(* There is such a function.                                             *)
LEMMA SegmentedExists ==
    ASSUME NEW path, NEW n \in Nat
    PROVE  \E g : Segmented(g, path, n)
<1> DEFINE T == {m \in Nat : \E g : Segmented(g, path, m)}
<1>1. 0 \in T
  <2>1. Segmented([i \in 1..0 |-> 0], path, 0)
    BY DEF Segmented
  <2> QED
    BY <2>1
<1>2. ASSUME NEW m \in Nat, m \in T PROVE m + 1 \in T
  <2>1. PICK g : Segmented(g, path, m)
    BY <1>2
  <2> DEFINE S(i, was) == CASE i = 1 -> <<>>
                            [] i > 1 /\ CharAt(path, i) \in SlashOrEnd ->
                                 WithSegment(was, Segment(path, i))
                            [] OTHER -> was
             h == [i \in 1..(m + 1) |-> IF i = m + 1 THEN S(i, g[m]) ELSE g[i]]
  <2>2. \A i \in 1..m : g[i] = S(i, g[i - 1])
    BY <2>1 DEF Segmented
  <2>0. \A was : S(1, was) = <<>>
    OBVIOUS
  <2> HIDE DEF S
  <2>3. ASSUME NEW i \in 1..(m + 1) PROVE h[i] = S(i, h[i - 1])
    <3>1. CASE i = 1
      <4>1. h[1] \in {S(1, g[m]), g[1]}
        OBVIOUS
      <4>2. m = 0 \/ 1 \in 1..m
        OBVIOUS
      <4> QED
        BY <2>0, <2>2, <3>1, <4>1, <4>2
    <3>2. CASE i # 1
      <4>1. i - 1 \in 1..(m + 1) /\ i - 1 # m + 1
        BY <3>2
      <4>2. h[i - 1] = g[i - 1]
        BY <4>1
      <4>3. h[i] = IF i = m + 1 THEN S(i, g[m]) ELSE g[i]
        OBVIOUS
      <4> HIDE DEF h
      <4> QED
        BY <2>2, <4>1, <4>2, <4>3
    <3> QED
      BY <3>1, <3>2
  <2>4. Segmented(h, path, m + 1)
    <3> HIDE DEF h
    <3>1. h = [i \in 1..(m + 1) |-> h[i]]
      BY DEF h
    <3>2. h = [i \in 1..(m + 1) |-> S(i, h[i - 1])]
      BY <2>3, <3>1
    <3> QED
      BY <3>2, Zenon DEF Segmented, S
  <2> QED
    BY <2>4
<1> HIDE DEF T
<1>3. n \in T
  BY <1>1, <1>2, Induction
<1> QED
  BY <1>3 DEF T

(* So Resolved joins its last value.                                     *)
LEMMA ResolvedUnfolds ==
    ASSUME NEW path, Len(path) \in Nat
    PROVE  \E g : /\ Segmented(g, path, Len(path) + 1)
                  /\ Resolved(path) = IF g[Len(path) + 1] = <<>> THEN <<"/">>
                                      ELSE Joined(g[Len(path) + 1])
<1> DEFINE G == CHOOSE g : Segmented(g, path, Len(path) + 1)
<1>1. Segmented(G, path, Len(path) + 1)
  BY SegmentedExists
<1>2. Resolved(path) = IF G[Len(path) + 1] = <<>> THEN <<"/">> ELSE Joined(G[Len(path) + 1])
  BY Zenon DEF Resolved, Segmented
<1> QED
  BY <1>1, <1>2

(* Its values, one step at a time.                                       *)
LEMMA SegmentValues ==
    ASSUME NEW path, NEW n \in Nat, NEW g, Segmented(g, path, n)
    PROVE  /\ n > 0 => g[1] = <<>>
           /\ \A i \in 2..n : g[i] = SegStep(path, i, g[i - 1])
<1>1. \A i \in 1..n : g[i] = CASE i = 1 -> <<>>
                               [] i > 1 /\ CharAt(path, i) \in SlashOrEnd ->
                                    WithSegment(g[i - 1], Segment(path, i))
                               [] OTHER -> g[i - 1]
  BY DEF Segmented
<1>2. n > 0 => g[1] = <<>>
  BY <1>1
<1>3. ASSUME NEW i \in 2..n PROVE g[i] = SegStep(path, i, g[i - 1])
  BY <1>1 DEF SegStep
<1> QED
  BY <1>2, <1>3

(* What path_lookup hands to canonpath: a path that begins with a slash. *)
Paths == {path \in Seq(Chars) : path # <<>> /\ path[1] = "/"}

(* The last slash up to i is at b.                                         *)
LastCut(path, b, i) ==
  /\ i \in 1..Len(path) /\ b \in 1..i
  /\ path[b] = "/" /\ \A j \in (b + 1)..i : path[j] # "/"

(* What the scan has come to at i, after the segments before the slash at  *)
(* b: it stops there, goes over one or two dots, or has copied the slash   *)
(* and what follows.                                                       *)
Tracks(path, b, segs, w, i) ==
  \/ CharAt(path, b + 1) = "/" /\ w = [from |-> b + 1, out |-> Joined(segs)]
  \/ IsDot(path, b) /\ w = [from |-> b + 2, out |-> Joined(segs)]
  \/ IsDotDot(path, b) /\ w = [from |-> b + 3, out |-> Parent(Joined(segs))]
  \/ /\ CharAt(path, b + 1) # "/" /\ ~IsDot(path, b) /\ ~IsDotDot(path, b)
     /\ w = [from |-> i + 1, out |-> Joined(segs) \o SubSeq(path, b, i)]

(* The characters of a path, and the end behind them.                    *)
LEMMA CharAtIs ==
    ASSUME NEW path \in Seq(Chars)
    PROVE  /\ \A j \in 1..Len(path) : CharAt(path, j) = path[j] /\ path[j] # "end"
           /\ \A j \in Nat : j > Len(path) => CharAt(path, j) = "end"
<1>1. DOMAIN path = 1..Len(path) /\ Len(path) \in Nat
  OBVIOUS
<1>2. \A j \in 1..Len(path) : path[j] \in Chars
  OBVIOUS
<1> QED
  BY <1>1, <1>2, CharTypes DEF CharAt

(* At a slash that is reached the scan begins a segment.                   *)
LEMMA AtSlash ==
    ASSUME NEW path \in Seq(Chars), NEW b \in 1..Len(path), path[b] = "/",
           NEW segs \in Seq(Names)
    PROVE  Tracks(path, b, segs,
                  CanonStep(path, b, [from |-> b, out |-> Joined(segs)]), b)
<1>1. PICK o \in Seq(Chars) : o = Joined(segs)
  BY JoinedType
<1>2. PICK w : w = [from |-> b, out |-> o]
  OBVIOUS
<1>3. w.from = b /\ w.out = o /\ w = [from |-> b, out |-> o] /\ b \in Nat
  BY <1>2
<1>4. PICK v : v = CanonStep(path, b, w)
  OBVIOUS
<1>5. CASE CharAt(path, b + 1) = "/"
  <2>1. CharAt(path, b + 1) # "."
    BY <1>5
  <2>2. v = [from |-> b + 1, out |-> o]
    BY <1>3, <1>4, <1>5, <2>1 DEF CanonStep, IsDot, IsDotDot
  <2> QED
    BY <1>1, <1>2, <1>4, <1>5, <2>2, Zenon DEF Tracks
<1>6. CASE CharAt(path, b + 1) # "/" /\ IsDot(path, b)
  <2>1. ~IsDotDot(path, b)
    BY <1>6 DEF IsDot, IsDotDot, SlashOrEnd
  <2>2. v = [from |-> b + 2, out |-> o]
    BY <1>3, <1>4, <1>6, <2>1 DEF CanonStep
  <2> QED
    BY <1>1, <1>2, <1>4, <1>6, <2>2, Zenon DEF Tracks
<1>7. CASE CharAt(path, b + 1) # "/" /\ ~IsDot(path, b) /\ IsDotDot(path, b)
  <2>2. v = [from |-> b + 3, out |-> Parent(o)]
    BY <1>3, <1>4, <1>7 DEF CanonStep
  <2> QED
    BY <1>1, <1>2, <1>4, <1>7, <2>2, Zenon DEF Tracks
<1>8. CASE CharAt(path, b + 1) # "/" /\ ~IsDot(path, b) /\ ~IsDotDot(path, b)
  <2>1. v = [from |-> b + 1, out |-> Append(o, path[b])]
    BY <1>3, <1>4, <1>8 DEF CanonStep
  <2>2. Append(o, path[b]) = o \o <<path[b]>>
    BY path[b] \in Chars, AppendIsConcat
  <2>3. SubSeq(path, b, b) = <<path[b]>>
    BY SubSeqOne
  <2>4. v = [from |-> b + 1, out |-> o \o SubSeq(path, b, b)]
    BY <2>1, <2>2, <2>3
  <2> QED
    BY <1>1, <1>2, <1>4, <1>8, <2>4, Zenon DEF Tracks
<1> QED
  BY <1>5, <1>6, <1>7, <1>8

(* Between two slashes it copies, or passes over dots.                     *)
LEMMA WithinSegment ==
    ASSUME NEW path \in Seq(Chars), NEW b, NEW i, LastCut(path, b, i),
           i + 1 \in 1..Len(path), path[i + 1] # "/",
           NEW segs \in Seq(Names), NEW w, Tracks(path, b, segs, w, i)
    PROVE  Tracks(path, b, segs, CanonStep(path, i + 1, w), i + 1)
<1>1. PICK o \in Seq(Chars) : o = Joined(segs)
  BY JoinedType
<1>2. /\ i \in 1..Len(path) /\ b \in 1..i /\ i \in Nat /\ b \in Nat /\ b <= i
      /\ \A j \in (b + 1)..i : path[j] # "/"
  BY DEF LastCut
<1>3. /\ \A j \in 1..Len(path) : CharAt(path, j) = path[j] /\ path[j] # "end"
  BY CharAtIs
<1>4. \A j \in (b + 1)..(i + 1) : CharAt(path, j) \notin SlashOrEnd
  <2> SUFFICES ASSUME NEW j \in (b + 1)..(i + 1) PROVE CharAt(path, j) \notin SlashOrEnd
    OBVIOUS
  <2>1. j \in 1..Len(path) /\ (j \in (b + 1)..i \/ j = i + 1)
    BY <1>2
  <2>2. path[j] # "/"
    BY <1>2, <2>1
  <2> QED
    BY <1>3, <2>1, <2>2 DEF SlashOrEnd
<1>5. CharAt(path, b + 1) # "/"
  BY <1>2, <1>4 DEF SlashOrEnd
<1>6. PICK v : v = CanonStep(path, i + 1, w)
  OBVIOUS
<1>7. CASE IsDot(path, b) /\ w = [from |-> b + 2, out |-> o]
  <2>1. b + 2 \notin (b + 1)..(i + 1)
    BY <1>4, <1>7 DEF IsDot
  <2>2. i + 1 < w.from
    BY <1>2, <1>7, <2>1
  <2>3. v = w
    BY <1>6, <2>2 DEF CanonStep
  <2> QED
    BY <1>1, <1>6, <1>7, <2>3, Zenon DEF Tracks
<1>8. CASE IsDotDot(path, b) /\ w = [from |-> b + 3, out |-> Parent(o)]
  <2>1. b + 3 \notin (b + 1)..(i + 1)
    BY <1>4, <1>8 DEF IsDotDot
  <2>2. i + 1 < w.from
    BY <1>2, <1>8, <2>1
  <2>3. v = w
    BY <1>6, <2>2 DEF CanonStep
  <2> QED
    BY <1>1, <1>6, <1>8, <2>3, Zenon DEF Tracks
<1>9. CASE /\ ~IsDot(path, b) /\ ~IsDotDot(path, b)
           /\ w = [from |-> i + 1, out |-> o \o SubSeq(path, b, i)]
  <2>1. PICK s \in Seq(Chars) : s = SubSeq(path, b, i)
    <3>1. \A j \in b..i : path[j] \in Chars
      BY <1>2
    <3>2. SubSeq(path, b, i) \in Seq(Chars)
      BY <1>2, <3>1, SubSeqProperties
    <3> QED
      BY <3>2
  <2>2. w.from = i + 1 /\ w.out = o \o s
    BY <1>9, <2>1
  <2>3. v = [from |-> (i + 1) + 1, out |-> Append(o \o s, path[i + 1])]
    BY <1>2, <1>6, <2>2 DEF CanonStep
  <2>4. PICK c \in Chars : c = path[i + 1]
    OBVIOUS
  <2>5. Append(o \o s, c) = o \o Append(s, c)
    <3>0. Associative(Chars)
      BY ConcatIsAssociative
    <3>1. PICK u \in Seq(Chars) : u = <<c>>
      <4>1. <<c>> \in Seq(Chars)
        OBVIOUS
      <4> QED
        BY <4>1
    <3>2. (o \o s) \o u = o \o (s \o u)
      BY <3>0, Zenon DEF Associative
    <3>3. Append(s, c) = s \o u
      BY <2>1, <3>1, AppendIsConcat
    <3>4. PICK x \in Seq(Chars) : x = o \o s
      BY <2>1, ConcatProperties
    <3>5. Append(x, c) = x \o u
      BY <3>1, AppendIsConcat
    <3> QED
      BY <3>2, <3>3, <3>4, <3>5
  <2>6. SubSeq(path, b, i + 1) = Append(s, c)
    BY <1>2, <2>1, <2>4, SubSeqMore
  <2>7. v = [from |-> (i + 1) + 1, out |-> o \o SubSeq(path, b, i + 1)]
    BY <2>3, <2>4, <2>5, <2>6
  <2> QED
    BY <1>1, <1>5, <1>6, <1>9, <2>7, Zenon DEF Tracks
<1> QED
  BY <1>1, <1>5, <1>7, <1>8, <1>9 DEF Tracks

(* The segment before i + 1 is what is between it and the last slash.      *)
LEMMA SegmentIs ==
    ASSUME NEW path \in Seq(Chars), NEW b, NEW i, LastCut(path, b, i)
    PROVE  Segment(path, i + 1) = SubSeq(path, b + 1, i)
<1>1. /\ i \in 1..Len(path) /\ b \in 1..i /\ i \in Nat /\ b \in Nat /\ (i + 1) - 1 = i
      /\ path[b] = "/" /\ \A j \in (b + 1)..i : path[j] # "/"
  BY DEF LastCut
<1> DEFINE S == {j \in 1..i : path[j] = "/"} \cup {0}
<1>2. S \subseteq Nat /\ b \in S /\ \A y \in S : y <= b
  BY <1>1
<1> HIDE DEF S
<1>3. Max(S) = b
  BY <1>2, MaxIs
<1> QED
  BY <1>1, <1>3 DEF Segment, S

(* s is what is between the slash at b and position i + 1.               *)
IsBetween(s, path, b, i) ==
  /\ s \in Seq(Chars) /\ Len(s) = i - b
  /\ \A j \in 1..(i - b) : s[j] = CharAt(path, b + j)

(* The piece between them is.                                            *)
LEMMA BetweenCuts ==
    ASSUME NEW path \in Seq(Chars), NEW b, NEW i, LastCut(path, b, i)
    PROVE  IsBetween(SubSeq(path, b + 1, i), path, b, i)
<1>1. /\ i \in 1..Len(path) /\ b \in 1..i /\ i \in Nat /\ b \in Nat /\ b <= i
      /\ \A j \in (b + 1)..i : path[j] # "/"
  BY DEF LastCut
<1>2. \A j \in 1..Len(path) : CharAt(path, j) = path[j] /\ path[j] # "end"
  BY CharAtIs
<1>3. \A j \in (b + 1)..i : CharAt(path, j) = path[j] /\ CharAt(path, j) \notin SlashOrEnd
  <2> SUFFICES ASSUME NEW j \in (b + 1)..i
               PROVE  CharAt(path, j) = path[j] /\ CharAt(path, j) \notin SlashOrEnd
    OBVIOUS
  <2>1. j \in 1..Len(path)
    BY <1>1
  <2> QED
    BY <1>1, <1>2, <2>1 DEF SlashOrEnd
<1>4. PICK s : s = SubSeq(path, b + 1, i)
  OBVIOUS
<1>5. /\ s \in Seq(Chars) /\ Len(s) = i - b
      /\ \A j \in 1..(i - b) : s[j] = CharAt(path, b + j)
  <2>1. b + 1 \in Int /\ i \in Int /\ \A j \in (b + 1)..i : path[j] \in Chars
    BY <1>1
  <2>2. /\ s \in Seq(Chars) /\ Len(s) = IF b + 1 <= i THEN i - (b + 1) + 1 ELSE 0
        /\ \A j \in 1..(i - (b + 1) + 1) : s[j] = path[b + 1 + j - 1]
    BY <1>4, <2>1, SubSeqProperties
  <2>3. ASSUME NEW j \in 1..(i - b) PROVE s[j] = CharAt(path, b + j)
    <3>1. j \in 1..(i - (b + 1) + 1) /\ b + 1 + j - 1 = b + j /\ b + j \in (b + 1)..i
      BY <1>1
    <3>2. s[j] = path[b + j]
      BY <2>2, <3>1
    <3>3. CharAt(path, b + j) = path[b + j]
      BY <1>3, <3>1
    <3> QED
      BY <3>2, <3>3
  <2>4. Len(s) = i - b
    BY <1>1, <2>2
  <2> QED
    BY <2>2, <2>3, <2>4
<1> QED
  BY <1>4, <1>5 DEF IsBetween

(* What the segment is that ends at the next slash or at the end.          *)
LEMMA SegmentKinds ==
    ASSUME NEW path \in Seq(Chars), NEW b, NEW i, LastCut(path, b, i),
           CharAt(path, i + 1) \in SlashOrEnd,
           NEW s, IsBetween(s, path, b, i)
    PROVE  /\ CharAt(path, b + 1) = "/" => i = b /\ s = <<>>
           /\ IsDot(path, b) => i = b + 1 /\ s = <<".">>
           /\ IsDotDot(path, b) => i = b + 2 /\ s = <<".", ".">>
           /\ CharAt(path, b + 1) # "/" /\ ~IsDot(path, b) /\ ~IsDotDot(path, b) =>
                \/ i = b /\ s = <<>>
                \/ i > b /\ s \in Names /\ s \notin {<<".">>, <<".", ".">>}
<1>1. /\ i \in 1..Len(path) /\ b \in 1..i /\ i \in Nat /\ b \in Nat /\ b <= i
      /\ \A j \in (b + 1)..i : path[j] # "/"
  BY DEF LastCut
<1>2. \A j \in 1..Len(path) : CharAt(path, j) = path[j] /\ path[j] # "end"
  BY CharAtIs
<1>3. \A j \in (b + 1)..i : CharAt(path, j) = path[j] /\ CharAt(path, j) \notin SlashOrEnd
  <2> SUFFICES ASSUME NEW j \in (b + 1)..i
               PROVE  CharAt(path, j) = path[j] /\ CharAt(path, j) \notin SlashOrEnd
    OBVIOUS
  <2>1. j \in 1..Len(path)
    BY <1>1
  <2> QED
    BY <1>1, <1>2, <2>1 DEF SlashOrEnd
<1>4. \A j \in Nat : j > b /\ CharAt(path, j) \in SlashOrEnd => j > i
  BY <1>1, <1>3
<1>5. /\ s \in Seq(Chars) /\ Len(s) = i - b
      /\ \A j \in 1..(i - b) : s[j] = CharAt(path, b + j)
  BY DEF IsBetween
<1>6. CharAt(path, b + 1) = "/" => i = b /\ s = <<>>
  <2> SUFFICES ASSUME CharAt(path, b + 1) = "/" PROVE i = b /\ s = <<>>
    OBVIOUS
  <2>1. i = b
    BY <1>1, <1>4 DEF SlashOrEnd
  <2> QED
    BY <1>1, <1>5, <2>1, EmptySeq
<1>7. IsDot(path, b) => i = b + 1 /\ s = <<".">>
  <2> SUFFICES ASSUME IsDot(path, b) PROVE i = b + 1 /\ s = <<".">>
    OBVIOUS
  <2>1. CharAt(path, b + 1) = "." /\ CharAt(path, b + 2) \in SlashOrEnd
    BY DEF IsDot
  <2>2. i # b
    BY <2>1, CharAt(path, i + 1) \in SlashOrEnd DEF SlashOrEnd
  <2>3. i < b + 2
    BY <1>4, <1>1, <2>1
  <2>4. i = b + 1 /\ i - b = 1
    BY <1>1, <2>2, <2>3
  <2>5. PICK t : t = <<".">>
    OBVIOUS
  <2>6. t \in Seq(Chars) /\ Len(t) = 1 /\ t[1] = "."
    BY <2>5, CharTypes
  <2>7. Len(s) = 1 /\ s[1] = "."
    BY <1>5, <2>1, <2>4
  <2>8. \A j \in 1..1 : s[j] = t[j]
    BY <2>6, <2>7
  <2>9. s = t
    BY <1>5, <2>6, <2>7, <2>8, SeqEqual
  <2> QED
    BY <2>4, <2>5, <2>9
<1>8. IsDotDot(path, b) => i = b + 2 /\ s = <<".", ".">>
  <2> SUFFICES ASSUME IsDotDot(path, b) PROVE i = b + 2 /\ s = <<".", ".">>
    OBVIOUS
  <2>1. /\ CharAt(path, b + 1) = "." /\ CharAt(path, b + 2) = "."
        /\ CharAt(path, b + 3) \in SlashOrEnd
    BY DEF IsDotDot
  <2>2. i # b /\ i # b + 1
    <3>1. (b + 1) + 1 = b + 2
      BY <1>1
    <3> QED
      BY <2>1, <3>1, CharAt(path, i + 1) \in SlashOrEnd DEF SlashOrEnd
  <2>3. i < b + 3
    BY <1>4, <1>1, <2>1
  <2>4. i = b + 2 /\ i - b = 2
    BY <1>1, <2>2, <2>3
  <2>5. PICK t : t = <<".", ".">>
    OBVIOUS
  <2>6. t \in Seq(Chars) /\ Len(t) = 2 /\ t[1] = "." /\ t[2] = "."
    BY <2>5, CharTypes
  <2>7. Len(s) = 2 /\ s[1] = "." /\ s[2] = "."
    BY <1>5, <2>1, <2>4
  <2>8. \A j \in 1..2 : s[j] = t[j]
    BY <2>6, <2>7
  <2>9. s = t
    BY <1>5, <2>6, <2>7, <2>8, SeqEqual
  <2> QED
    BY <2>4, <2>5, <2>9
<1>9. ASSUME i # b, CharAt(path, b + 1) # "/", ~IsDot(path, b), ~IsDotDot(path, b)
      PROVE  i > b /\ s \in Names /\ s \notin {<<".">>, <<".", ".">>}
  <2>1. i > b /\ i - b \in Nat \ {0}
    BY <1>1, <1>9
  <2>2. s \in Names
    <3>1. ASSUME NEW j \in 1..Len(s) PROVE s[j] # "/"
      <4>1. j \in 1..(i - b) /\ b + j \in (b + 1)..i
        BY <1>1, <1>5
      <4> QED
        BY <1>3, <1>5, <4>1 DEF SlashOrEnd
    <3>2. s # <<>>
      BY <1>5, <2>1, EmptySeq
    <3> QED
      BY <1>5, <3>1, <3>2 DEF Names
  <2>3. s # <<".">>
    <3> SUFFICES ASSUME s = <<".">> PROVE FALSE
      OBVIOUS
    <3>1. Len(s) = 1 /\ s[1] = "."
      OBVIOUS
    <3>2. i + 1 = b + 2
      BY <1>1, <1>5, <3>1
    <3>3. CharAt(path, b + 1) = "."
      BY <1>5, <3>1
    <3> QED
      BY <1>9, <3>2, <3>3, CharAt(path, i + 1) \in SlashOrEnd DEF IsDot
  <2>4. s # <<".", ".">>
    <3> SUFFICES ASSUME s = <<".", ".">> PROVE FALSE
      OBVIOUS
    <3>1. Len(s) = 2 /\ s[1] = "." /\ s[2] = "."
      OBVIOUS
    <3>2. i + 1 = b + 3 /\ i - b = 2
      BY <1>1, <1>5, <3>1
    <3>3. CharAt(path, b + 1) = "." /\ CharAt(path, b + 2) = "."
      BY <1>5, <3>1, <3>2
    <3> QED
      BY <1>9, <3>2, <3>3, CharAt(path, i + 1) \in SlashOrEnd DEF IsDotDot
  <2> QED
    BY <2>1, <2>2, <2>3, <2>4
<1>10. i = b => s = <<>>
  BY <1>1, <1>5, EmptySeq
<1> QED
  BY <1>6, <1>7, <1>8, <1>9, <1>10

(* Segments stay names.                                                  *)
LEMMA WithSegmentType ==
    ASSUME NEW segs \in Seq(Names), NEW s,
           s \in Names \cup {<<>>, <<".">>, <<".", ".">>}
    PROVE  WithSegment(segs, s) \in Seq(Names)
<1>1. segs # <<>> => Front(segs) \in Seq(Names)
  BY SplitLast
<1>2. s \in Names => Append(segs, s) \in Seq(Names)
  OBVIOUS
<1>3. <<".", ".">> # <<".">> /\ <<".", ".">> # <<>>
  OBVIOUS
<1> QED
  BY <1>1, <1>2, <1>3 DEF WithSegment

(* A segment is a name, or one of those that canonpath takes out.        *)
LEMMA SegmentType ==
    ASSUME NEW path \in Seq(Chars), NEW b, NEW i, LastCut(path, b, i),
           CharAt(path, i + 1) \in SlashOrEnd
    PROVE  SubSeq(path, b + 1, i) \in Names \cup {<<>>, <<".">>, <<".", ".">>}
<1>1. PICK s : s = SubSeq(path, b + 1, i)
  OBVIOUS
<1>2. IsBetween(s, path, b, i)
  BY <1>1, BetweenCuts
<1>3. s \in Names \cup {<<>>, <<".">>, <<".", ".">>}
  BY <1>2, SegmentKinds
<1> QED
  BY <1>1, <1>3

(* At the end of a segment the scan has put out all segments up to it; at  *)
(* the end of the path after a slash that slash too.                       *)
CutAt(path, segs, w, i, s) ==
  \/ w = [from |-> i + 1, out |-> Joined(WithSegment(segs, s))]
  \/ /\ CharAt(path, i + 1) = "end"
     /\ w.out = Joined(segs) \o <<"/">>
     /\ s = <<>> /\ WithSegment(segs, s) = segs

(* There the scan and the segments agree again.                          *)
LEMMA CutReached ==
    ASSUME NEW path \in Seq(Chars), NEW b, NEW i, LastCut(path, b, i),
           CharAt(path, i + 1) \in SlashOrEnd,
           NEW segs \in Seq(Names), NEW w, Tracks(path, b, segs, w, i)
    PROVE  CutAt(path, segs, w, i, SubSeq(path, b + 1, i))
<1>1. PICK t : t = SubSeq(path, b + 1, i)
  OBVIOUS
<1>0. SUFFICES CutAt(path, segs, w, i, t)
  BY <1>1
<1>2. IsBetween(t, path, b, i)
  BY <1>1, BetweenCuts
<1>3. /\ CharAt(path, b + 1) = "/" => i = b /\ t = <<>>
      /\ IsDot(path, b) => i = b + 1 /\ t = <<".">>
      /\ IsDotDot(path, b) => i = b + 2 /\ t = <<".", ".">>
      /\ CharAt(path, b + 1) # "/" /\ ~IsDot(path, b) /\ ~IsDotDot(path, b) =>
           \/ i = b /\ t = <<>>
           \/ i > b /\ t \in Names /\ t \notin {<<".">>, <<".", ".">>}
  BY <1>2, SegmentKinds
<1>4. PICK o \in Seq(Chars) : o = Joined(segs)
  BY JoinedType
<1>5. /\ i \in 1..Len(path) /\ b \in 1..i /\ i \in Nat /\ b \in Nat /\ b <= i
      /\ path[b] = "/"
  BY DEF LastCut
<1>6. t \in {<<>>, <<".">>} => WithSegment(segs, t) = segs
  <2>1. <<".", ".">> # <<".">> /\ <<".", ".">> # <<>>
    OBVIOUS
  <2> QED
    BY <2>1 DEF WithSegment
<1>7. CASE CharAt(path, b + 1) = "/" /\ w = [from |-> b + 1, out |-> Joined(segs)]
  BY <1>3, <1>6, <1>7 DEF CutAt
<1>8. CASE IsDot(path, b) /\ w = [from |-> b + 2, out |-> Joined(segs)]
  <2>1. i + 1 = b + 2
    BY <1>3, <1>5, <1>8
  <2> QED
    BY <1>3, <1>6, <1>8, <2>1 DEF CutAt
<1>9. CASE IsDotDot(path, b) /\ w = [from |-> b + 3, out |-> Parent(Joined(segs))]
  <2>1. i + 1 = b + 3
    BY <1>3, <1>5, <1>9
  <2>2. WithSegment(segs, t) = IF segs = <<>> THEN segs ELSE Front(segs)
    <3>1. <<".", ".">> # <<".">> /\ <<".", ".">> # <<>>
      OBVIOUS
    <3>2. t = <<".", ".">>
      BY <1>3, <1>9
    <3> QED
      BY <3>1, <3>2 DEF WithSegment
  <2>3. Joined(WithSegment(segs, t)) = Parent(Joined(segs))
    BY <2>2, ParentOfJoined
  <2> QED
    BY <1>9, <2>1, <2>3 DEF CutAt
<1>10. CASE /\ CharAt(path, b + 1) # "/" /\ ~IsDot(path, b) /\ ~IsDotDot(path, b)
            /\ w = [from |-> i + 1, out |-> Joined(segs) \o SubSeq(path, b, i)]
  <2>1. CASE i = b
    <3>1. SubSeq(path, b, b) = <<"/">>
      BY <1>5, <2>1, SubSeqOne
    <3>2. w.out = Joined(segs) \o <<"/">>
      BY <1>10, <2>1, <3>1
    <3>3. CharAt(path, i + 1) = "end"
      BY <1>10, <2>1 DEF SlashOrEnd
    <3>4. t = <<>>
      BY <1>3, <1>10, <1>5, <2>1
    <3> QED
      BY <1>6, <3>2, <3>3, <3>4, Zenon DEF CutAt
  <2>2. CASE i # b
    <3>1. i > b /\ t \in Names /\ t \notin {<<".">>, <<".", ".">>} /\ t # <<>>
      BY <1>3, <1>10, <2>2 DEF Names
    <3>2. WithSegment(segs, t) = Append(segs, t)
      BY <3>1 DEF WithSegment
    <3>3. Joined(Append(segs, t)) = o \o (<<"/">> \o t)
      BY <1>4, <3>1, JoinedAppend
    <3>4. SubSeq(path, b, i) = <<"/">> \o t
      <4>1. PICK n \in Nat : n = Len(path)
        OBVIOUS
      <4>2. b \in 1..n /\ i \in b..n
        BY <1>5, <4>1
      <4>3. SubSeq(path, b, i) = <<path[b]>> \o SubSeq(path, b + 1, i)
        BY <4>1, <4>2, SubSeqRecursiveFirst
      <4> QED
        BY <1>1, <1>5, <4>3
    <3> QED
      BY <1>4, <1>10, <3>2, <3>3, <3>4, Zenon DEF CutAt
  <2> QED
    BY <2>1, <2>2
<1> QED
  BY <1>7, <1>8, <1>9, <1>10 DEF Tracks

(* The scan follows the segments at i.                                   *)
Follows(path, f, g, i) ==
  \E b : /\ LastCut(path, b, i) /\ g[i] \in Seq(Names)
         /\ Tracks(path, b, g[i], f[i], i)

(* It does at every position of a path: by induction over the positions. *)
LEMMA ScanFollows ==
    ASSUME NEW path \in Paths,
           NEW f, Scans(f, path, Len(path)),
           NEW g, Segmented(g, path, Len(path) + 1)
    PROVE  Follows(path, f, g, Len(path))
<1>1. path \in Seq(Chars) /\ path # <<>> /\ path[1] = "/"
  BY DEF Paths
<1>2. PICK n \in Nat \ {0} : n = Len(path)
  BY <1>1, EmptySeq
<1>3. /\ f[0] = [from |-> 1, out |-> <<>>]
      /\ \A i \in 1..n : f[i] = CanonStep(path, i, f[i - 1])
  BY <1>2, ScanValues
<1>4. g[1] = <<>> /\ \A i \in 2..(n + 1) : g[i] = SegStep(path, i, g[i - 1])
  <2>1. Segmented(g, path, n + 1) /\ n + 1 \in Nat /\ n + 1 > 0
    BY <1>2
  <2> QED
    BY <2>1, SegmentValues
<1> DEFINE T == {i \in 1..n : Follows(path, f, g, i)}
<1>5. 1 \in T
  <2>1. LastCut(path, 1, 1)
    BY <1>1, <1>2 DEF LastCut
  <2>2. <<>> \in Seq(Names) /\ Joined(<<>>) = <<>>
    BY JoinedNothing
  <2>3. f[1] = CanonStep(path, 1, [from |-> 1, out |-> Joined(<<>>)])
    <3>1. 1 \in 1..n /\ 1 - 1 = 0
      OBVIOUS
    <3> QED
      BY <1>3, <2>2, <3>1
  <2>4. Tracks(path, 1, <<>>, f[1], 1)
    <3>1. PICK none \in Seq(Names) : none = <<>>
      BY <2>2
    <3>2. f[1] = CanonStep(path, 1, [from |-> 1, out |-> Joined(none)])
      BY <2>3, <3>1
    <3>3. 1 \in 1..Len(path)
      BY <1>2
    <3>4. Tracks(path, 1, none, f[1], 1)
      BY <1>1, <3>2, <3>3, AtSlash
    <3> QED
      BY <3>1, <3>4
  <2>5. Follows(path, f, g, 1)
    BY <1>4, <2>1, <2>2, <2>4 DEF Follows
  <2> QED
    BY <2>5
<1>6. ASSUME NEW k \in 2..n, k - 1 \in T PROVE k \in T
  <2>1. PICK i \in Nat : i = k - 1
    OBVIOUS
  <2>2. k = i + 1 /\ i \in 1..n /\ i + 1 \in 1..n /\ i + 1 \in 2..(n + 1) /\ (i + 1) - 1 = i
    BY <2>1
  <2>3. PICK b : /\ LastCut(path, b, i) /\ g[i] \in Seq(Names)
                 /\ Tracks(path, b, g[i], f[i], i)
    BY <1>6, <2>1 DEF Follows
  <2>4. f[i + 1] = CanonStep(path, i + 1, f[i]) /\ g[i + 1] = SegStep(path, i + 1, g[i])
    BY <1>3, <1>4, <2>2
  <2>5. CharAt(path, i + 1) = path[i + 1] /\ path[i + 1] # "end"
    BY <1>1, <1>2, <2>2, CharAtIs
  <2>6. CASE path[i + 1] = "/"
    <3>1. PICK s : s = SubSeq(path, b + 1, i)
      OBVIOUS
    <3>2. CharAt(path, i + 1) \in SlashOrEnd /\ CharAt(path, i + 1) # "end"
      BY <2>5, <2>6 DEF SlashOrEnd
    <3>3. f[i] = [from |-> i + 1, out |-> Joined(WithSegment(g[i], s))]
      <4>1. CutAt(path, g[i], f[i], i, s)
        BY <1>1, <2>3, <3>1, <3>2, CutReached
      <4> QED
        BY <3>2, <4>1, Zenon DEF CutAt
    <3>4. g[i + 1] = WithSegment(g[i], s)
      BY <1>1, <2>3, <2>4, <3>1, <3>2, SegmentIs DEF SegStep
    <3>5. g[i + 1] \in Seq(Names)
      <4>1. s \in Names \cup {<<>>, <<".">>, <<".", ".">>}
        BY <1>1, <2>3, <3>1, <3>2, SegmentType
      <4> QED
        BY <2>3, <3>4, <4>1, WithSegmentType
    <3>6. f[i + 1] = CanonStep(path, i + 1, [from |-> i + 1, out |-> Joined(g[i + 1])])
      BY <2>4, <3>3, <3>4
    <3>7. Tracks(path, i + 1, g[i + 1], f[i + 1], i + 1)
      BY <1>1, <1>2, <2>2, <2>6, <3>5, <3>6, AtSlash
    <3>8. LastCut(path, i + 1, i + 1)
      BY <1>2, <2>2, <2>6 DEF LastCut
    <3>9. Follows(path, f, g, i + 1)
      BY <3>5, <3>7, <3>8 DEF Follows
    <3> QED
      BY <2>2, <3>9
  <2>7. CASE path[i + 1] # "/"
    <3>1. g[i + 1] = g[i]
      BY <2>4, <2>5, <2>7 DEF SegStep, SlashOrEnd
    <3>2. Tracks(path, b, g[i], f[i + 1], i + 1)
      BY <1>1, <1>2, <2>2, <2>3, <2>4, <2>7, WithinSegment
    <3>3. LastCut(path, b, i + 1)
      <4>1. ASSUME NEW j \in (b + 1)..(i + 1) PROVE path[j] # "/"
        <5>1. b \in Nat
          BY <2>3 DEF LastCut
        <5>2. j \in (b + 1)..i \/ j = i + 1
          BY <5>1
        <5> QED
          BY <2>3, <2>7, <5>2 DEF LastCut
      <4> QED
        BY <1>2, <2>2, <2>3, <4>1 DEF LastCut
    <3>4. Follows(path, f, g, i + 1)
      BY <2>3, <3>1, <3>2, <3>3 DEF Follows
    <3> QED
      BY <2>2, <3>4
  <2> QED
    BY <2>6, <2>7
<1> HIDE DEF T
<1>7. 1..n \subseteq T
  BY <1>2, <1>5, <1>6, IndexInduction
<1>8. n \in T
  BY <1>2, <1>7
<1> QED
  BY <1>2, <1>8 DEF T

(* What canonpath cuts off at the end is a slash that came last.         *)
LEMMA CleanedJoined ==
    ASSUME NEW segs \in Seq(Names)
    PROVE  /\ Cleaned(Joined(segs)) = IF segs = <<>> THEN <<"/">> ELSE Joined(segs)
           /\ Cleaned(Joined(segs) \o <<"/">>) = IF segs = <<>> THEN <<"/">> ELSE Joined(segs)
<1>1. CASE segs = <<>>
  <2>1. PICK u : u = <<"/">>
    OBVIOUS
  <2>2. u \in Seq(Chars) /\ Len(u) = 1 /\ u # <<>>
    BY <2>1, CharTypes
  <2>3. <<>> \o u = u
    BY <2>2, ConcatEmptySeq
  <2>4. Cleaned(<<>>) = u /\ Cleaned(u) = u
    <3>1. Cleaned(<<>>) = u
      BY <2>1 DEF Cleaned
    <3>2. Cleaned(u) = u
      BY <2>2 DEF Cleaned
    <3> QED
      BY <3>1, <3>2
  <2> QED
    BY <1>1, <2>1, <2>3, <2>4, JoinedNothing
<1>2. CASE segs # <<>>
  <2>1. PICK o \in Seq(Chars) : o = Joined(segs)
    BY JoinedType
  <2>2. o # <<>> /\ Last(o) # "/"
    BY <1>2, <2>1, JoinedEnds
  <2>3. Cleaned(o) = o
    BY <2>2 DEF Cleaned
  <2>4. PICK v : v = Append(o, "/")
    OBVIOUS
  <2>5. v = o \o <<"/">>
    BY <2>4, CharTypes, AppendIsConcat
  <2>6. Cleaned(v) = o
    <3>1. PICK n \in Nat \ {0} : n = Len(o)
      BY <2>2, EmptySeq
    <3>2. /\ v \in Seq(Chars) /\ v # <<>> /\ Len(v) = n + 1 /\ v[n + 1] = "/"
          /\ \A i \in 1..n : v[i] = o[i]
      BY <2>4, <3>1, CharTypes, AppendProperties
    <3>3. Last(v) = "/" /\ Len(v) > 1
      BY <3>2 DEF Last
    <3>4. Cleaned(v) = Front(v)
      BY <3>2, <3>3, Zenon DEF Cleaned
    <3>5. Front(v) = o
      <4>1. Front(v) = SubSeq(v, 1, (n + 1) - 1)
        BY <3>2 DEF Front
      <4>2. (n + 1) - 1 = n
        OBVIOUS
      <4>3. SubSeq(v, 1, n) = [i \in 1..n |-> v[i]]
        BY <3>2
      <4>4. o = [i \in 1..n |-> o[i]]
        BY <3>1
      <4> QED
        BY <3>2, <4>1, <4>2, <4>3, <4>4
    <3> QED
      BY <3>4, <3>5
  <2> QED
    BY <1>2, <2>1, <2>3, <2>5, <2>6
<1> QED
  BY <1>1, <1>2

(* canonpath resolves every path.                                          *)
THEOREM CanonResolves ==
    ASSUME NEW path \in Paths
    PROVE  Canon(path) = Resolved(path)
<1>1. path \in Seq(Chars) /\ path # <<>> /\ path[1] = "/"
  BY DEF Paths
<1>2. PICK n \in Nat \ {0} : n = Len(path)
  BY <1>1, EmptySeq
<1>3. PICK f : Scans(f, path, n) /\ Canon(path) = Cleaned(f[n].out)
  BY <1>2, CanonUnfolds
<1>4. PICK g : /\ Segmented(g, path, n + 1)
               /\ Resolved(path) = IF g[n + 1] = <<>> THEN <<"/">> ELSE Joined(g[n + 1])
  BY <1>2, ResolvedUnfolds
<1>5. Follows(path, f, g, n)
  BY <1>2, <1>3, <1>4, ScanFollows
<1>6. PICK b : /\ LastCut(path, b, n) /\ g[n] \in Seq(Names)
               /\ Tracks(path, b, g[n], f[n], n)
  BY <1>5 DEF Follows
<1>7. CharAt(path, n + 1) \in SlashOrEnd
  BY <1>1, <1>2, CharAtIs DEF SlashOrEnd
<1>8. PICK s : s = SubSeq(path, b + 1, n)
  OBVIOUS
<1>9. g[n + 1] = WithSegment(g[n], s)
  <2>1. n + 1 \in 2..(n + 1) /\ (n + 1) - 1 = n
    OBVIOUS
  <2>2. g[n + 1] = SegStep(path, n + 1, g[n])
    <3>1. Segmented(g, path, n + 1) /\ n + 1 \in Nat
      BY <1>4
    <3>2. \A i \in 2..(n + 1) : g[i] = SegStep(path, i, g[i - 1])
      BY <3>1, SegmentValues
    <3> QED
      BY <2>1, <3>2
  <2> QED
    BY <1>1, <1>6, <1>7, <1>8, <2>2, SegmentIs DEF SegStep
<1>10. g[n + 1] \in Seq(Names)
  <2>1. s \in Names \cup {<<>>, <<".">>, <<".", ".">>}
    BY <1>1, <1>6, <1>7, <1>8, SegmentType
  <2> QED
    BY <1>6, <1>9, <2>1, WithSegmentType
<1>11. PICK segs \in Seq(Names) : segs = g[n + 1]
  BY <1>10
<1>12. f[n].out \in {Joined(segs), Joined(segs) \o <<"/">>}
  <2>1. CutAt(path, g[n], f[n], n, s)
    BY <1>1, <1>6, <1>7, <1>8, CutReached
  <2>2. CASE f[n] = [from |-> n + 1, out |-> Joined(WithSegment(g[n], s))]
    <3>1. f[n].out = Joined(WithSegment(g[n], s))
      BY <2>2
    <3> QED
      BY <1>9, <1>11, <3>1
  <2>3. CASE f[n].out = Joined(g[n]) \o <<"/">> /\ WithSegment(g[n], s) = g[n]
    BY <1>9, <1>11, <2>3
  <2> QED
    BY <2>1, <2>2, <2>3, Zenon DEF CutAt
<1> QED
  BY <1>3, <1>4, <1>11, <1>12, CleanedJoined

(* The path of a sequence of segments.                                     *)
Placed(segs) == IF segs = <<>> THEN <<"/">> ELSE Joined(segs)

(* Up to a slash or the end the beginning of a path has the same segments. *)
LEMMA PrefixResolves ==
    ASSUME NEW path \in Paths, NEW n \in 1..Len(path),
           CharAt(path, n + 1) \in SlashOrEnd,
           NEW g, Segmented(g, path, Len(path) + 1)
    PROVE  Canon(SubSeq(path, 1, n)) = Placed(g[n + 1])
<1>1. path \in Seq(Chars) /\ path # <<>> /\ path[1] = "/"
  BY DEF Paths
<1>2. PICK m \in Nat : m = Len(path)
  BY <1>1
<1>3. PICK p : p = SubSeq(path, 1, n)
  OBVIOUS
<1>4. p \in Seq(Chars) /\ Len(p) = n /\ \A i \in 1..n : p[i] = path[i]
  <2>1. p = [i \in 1..n |-> path[i]]
    BY <1>1, <1>2, <1>3
  <2>2. \A i \in 1..n : path[i] \in Chars
    BY <1>1, <1>2
  <2> QED
    BY <1>2, <2>1, <2>2
<1>5. p \in Paths
  <2>1. n \in Nat /\ 1 \in 1..n /\ n # 0
    BY <1>2
  <2>2. p # <<>>
    BY <1>4, <2>1, EmptySeq
  <2> QED
    BY <1>1, <1>4, <2>1, <2>2 DEF Paths
<1>6. Canon(p) = Resolved(p)
  BY <1>5, CanonResolves
<1>7. PICK h : Segmented(h, p, n + 1) /\ Resolved(p) = Placed(h[n + 1])
  BY <1>2, <1>4, ResolvedUnfolds DEF Placed
<1>8. g[1] = <<>> /\ \A i \in 2..(m + 1) : g[i] = SegStep(path, i, g[i - 1])
  <2>1. Segmented(g, path, m + 1) /\ m + 1 \in Nat /\ m + 1 > 0
    BY <1>2
  <2> QED
    BY <2>1, SegmentValues
<1>9. h[1] = <<>> /\ \A i \in 2..(n + 1) : h[i] = SegStep(p, i, h[i - 1])
  <2>1. n + 1 \in Nat /\ n + 1 > 0
    BY <1>2
  <2> QED
    BY <1>7, <2>1, SegmentValues
<1>10. ASSUME NEW i \in 2..(n + 1) PROVE \A segs : SegStep(p, i, segs) = SegStep(path, i, segs)
  <2>1. i \in Nat /\ i - 1 \in 1..n /\ n \in 1..m
    BY <1>2
  <2>2. Segment(p, i) = Segment(path, i)
    <3>1. {j \in 1..i - 1 : p[j] = "/"} = {j \in 1..i - 1 : path[j] = "/"}
      BY <1>4, <2>1
    <3>2. PICK k : k = Max({j \in 1..i - 1 : path[j] = "/"} \cup {0}) + 1
      OBVIOUS
    <3>3. k \in 1..i
      <4> DEFINE S == {j \in 1..i - 1 : path[j] = "/"} \cup {0}
      <4>1. S \subseteq 0..(i - 1) /\ S # {} /\ i - 1 \in Nat
        BY <2>1
      <4> HIDE DEF S
      <4>2. Max(S) \in S
        BY <4>1, MaxExists
      <4>3. Max(S) \in 0..(i - 1)
        BY <4>1, <4>2
      <4> QED
        BY <3>2, <4>3 DEF S
    <3>4. SubSeq(p, k, i - 1) = SubSeq(path, k, i - 1)
      <4>1. \A j \in k..(i - 1) : j \in 1..n
        BY <2>1, <3>3
      <4>2. SubSeq(p, k, i - 1) = [j \in 1..(i - 1 - k + 1) |-> p[k + j - 1]]
        BY <1>4, <2>1, <3>3
      <4>3. SubSeq(path, k, i - 1) = [j \in 1..(i - 1 - k + 1) |-> path[k + j - 1]]
        BY <1>1, <1>2, <2>1, <3>3
      <4>4. ASSUME NEW j \in 1..(i - 1 - k + 1) PROVE p[k + j - 1] = path[k + j - 1]
        <5>1. k + j - 1 \in 1..n
          BY <2>1, <3>3
        <5> QED
          BY <1>4, <5>1
      <4> QED
        BY <4>2, <4>3, <4>4
    <3> QED
      BY <3>1, <3>2, <3>4 DEF Segment
  <2>3. CharAt(p, i) \in SlashOrEnd <=> CharAt(path, i) \in SlashOrEnd
    <3>1. CASE i \in 1..n
      <4>1. CharAt(p, i) = p[i]
        BY <1>4, <3>1, CharAtIs
      <4>2. CharAt(path, i) = path[i]
        BY <1>1, <1>2, <2>1, <3>1, CharAtIs
      <4> QED
        BY <1>4, <3>1, <4>1, <4>2
    <3>2. CASE i = n + 1
      <4>1. CharAt(p, i) = "end"
        <5>1. i \in Nat /\ i > Len(p)
          BY <1>4, <2>1, <3>2
        <5> QED
          BY <1>4, <5>1, CharAtIs
      <4> QED
        BY <3>2, <4>1 DEF SlashOrEnd
    <3> QED
      BY <2>1, <3>1, <3>2
  <2> QED
    BY <2>2, <2>3 DEF SegStep
<1> DEFINE T == {i \in 1..(n + 1) : h[i] = g[i]}
<1>11. 1 \in T
  BY <1>2, <1>8, <1>9
<1>12. ASSUME NEW i \in 2..(n + 1), i - 1 \in T PROVE i \in T
  <2>1. i \in 1..(n + 1) /\ i \in 2..(m + 1)
    BY <1>2
  <2>2. h[i] = SegStep(p, i, h[i - 1]) /\ g[i] = SegStep(path, i, g[i - 1])
    BY <1>8, <1>9, <2>1
  <2> QED
    BY <1>10, <1>12, <2>1, <2>2
<1> HIDE DEF T
<1>13. n + 1 \in T
  <2>1. n + 1 \in Nat /\ n + 1 \in 1..(n + 1)
    BY <1>2
  <2> QED
    BY <1>11, <1>12, <2>1, IndexInduction
<1> QED
  BY <1>3, <1>6, <1>7, <1>13 DEF T

(* Every position of a path has a last slash up to it.                   *)
LEMMA LastCutExists ==
    ASSUME NEW path \in Paths, NEW i \in 1..Len(path)
    PROVE  \E b : LastCut(path, b, i)
<1>1. path \in Seq(Chars) /\ path # <<>> /\ path[1] = "/"
  BY DEF Paths
<1>2. PICK m \in Nat : m = Len(path)
  BY <1>1
<1> DEFINE S == {j \in 1..i : path[j] = "/"}
<1>3. S \subseteq 0..i /\ S # {} /\ i \in Nat
  <2>1. 1 \in S /\ i \in Nat
    BY <1>1, <1>2
  <2> QED
    BY <2>1
<1>4. Max(S) \in S /\ \A y \in S : y <= Max(S)
  <2> HIDE DEF S
  <2> QED
    BY <1>3, MaxExists
<1>5. PICK b : b = Max(S)
  OBVIOUS
<1>6. b \in 1..i /\ path[b] = "/" /\ \A y \in S : y <= b
  BY <1>4, <1>5
<1>7. ASSUME NEW j \in (b + 1)..i PROVE path[j] # "/"
  <2>1. j \in 1..i /\ ~(j <= b)
    BY <1>3, <1>6
  <2> QED
    BY <1>6, <2>1
<1>8. LastCut(path, b, i)
  BY <1>6, <1>7 DEF LastCut
<1> QED
  BY <1>8

(* The segments of a path are names, at every position.                  *)
LEMMA SegmentsType ==
    ASSUME NEW path \in Paths, NEW g, Segmented(g, path, Len(path) + 1)
    PROVE  \A i \in 1..(Len(path) + 1) : g[i] \in Seq(Names)
<1>1. path \in Seq(Chars) /\ path # <<>> /\ path[1] = "/"
  BY DEF Paths
<1>2. PICK m \in Nat : m = Len(path)
  BY <1>1
<1>3. g[1] = <<>> /\ \A i \in 2..(m + 1) : g[i] = SegStep(path, i, g[i - 1])
  <2>1. Segmented(g, path, m + 1) /\ m + 1 \in Nat /\ m + 1 > 0
    BY <1>2
  <2> QED
    BY <2>1, SegmentValues
<1> DEFINE T == {i \in 1..(m + 1) : g[i] \in Seq(Names)}
<1>4. 1 \in T
  <2>1. <<>> \in Seq(Names) /\ 1 \in 1..(m + 1)
    BY <1>2
  <2> QED
    BY <1>3, <2>1
<1>5. ASSUME NEW i \in 2..(m + 1), i - 1 \in T PROVE i \in T
  <2>1. g[i] = SegStep(path, i, g[i - 1]) /\ g[i - 1] \in Seq(Names) /\ i \in 1..(m + 1)
    BY <1>2, <1>3, <1>5
  <2>2. CASE CharAt(path, i) \notin SlashOrEnd
    BY <2>1, <2>2 DEF SegStep
  <2>3. CASE CharAt(path, i) \in SlashOrEnd
    <3>1. PICK k : k = i - 1
      OBVIOUS
    <3>2. k \in 1..m /\ k + 1 = i
      BY <1>2, <3>1
    <3>3. PICK b : LastCut(path, b, k)
      BY <1>2, <3>2, LastCutExists
    <3>4. Segment(path, k + 1) = SubSeq(path, b + 1, k)
      BY <1>1, <3>3, SegmentIs
    <3>5. SubSeq(path, b + 1, k) \in Names \cup {<<>>, <<".">>, <<".", ".">>}
      BY <1>1, <2>3, <3>2, <3>3, SegmentType
    <3>6. PICK s \in Names \cup {<<>>, <<".">>, <<".", ".">>} : s = Segment(path, i)
      BY <3>2, <3>4, <3>5
    <3>7. g[i] = WithSegment(g[i - 1], s)
      BY <2>1, <2>3, <3>6 DEF SegStep
    <3>8. PICK segs \in Seq(Names) : segs = g[i - 1]
      BY <2>1
    <3>9. WithSegment(segs, s) \in Seq(Names)
      BY <3>6, <3>8, WithSegmentType
    <3> QED
      BY <2>1, <3>7, <3>8, <3>9
  <2> QED
    BY <2>2, <2>3
<1> HIDE DEF T
<1>6. 1..(m + 1) \subseteq T
  <2>1. m + 1 \in Nat
    BY <1>2
  <2> QED
    BY <1>4, <1>5, <2>1, IndexInduction
<1> QED
  BY <1>2, <1>6 DEF T

(* segs goes on after a.                                                   *)
Extends(segs, a) ==
  Len(segs) >= Len(a) /\ \A k \in 1..Len(a) : segs[k] = a[k]

(* It goes on being so with any segment but the two dots that leave a.   *)
LEMMA ExtendsStep ==
    ASSUME NEW a \in Seq(Names), NEW segs \in Seq(Names), Extends(segs, a),
           NEW s, WithSegment(segs, s) \in Seq(Names),
           ~(segs = a /\ s = <<".", ".">> /\ a # <<>>)
    PROVE  Extends(WithSegment(segs, s), a)
<1>1. PICK n \in Nat : n = Len(a)
  OBVIOUS
<1>2. PICK m \in Nat : m = Len(segs)
  OBVIOUS
<1>3. m >= n /\ \A k \in 1..n : segs[k] = a[k]
  BY <1>1, <1>2 DEF Extends
<1>4. CASE s \in {<<>>, <<".">>}
  <2>1. WithSegment(segs, s) = segs
    <3>1. <<".", ".">> # <<".">> /\ <<".", ".">> # <<>>
      OBVIOUS
    <3> QED
      BY <1>4, <3>1 DEF WithSegment
  <2> QED
    BY <2>1
<1>5. CASE s = <<".", ".">>
  <2>1. WithSegment(segs, s) = IF segs = <<>> THEN segs ELSE Front(segs)
    <3>1. <<".", ".">> # <<".">> /\ <<".", ".">> # <<>>
      OBVIOUS
    <3> QED
      BY <1>5, <3>1 DEF WithSegment
  <2>2. CASE segs = <<>>
    BY <2>1, <2>2
  <2>3. CASE segs # <<>> /\ m > n
    <3>1. PICK f : f = Front(segs)
      OBVIOUS
    <3>2. Len(f) = m - 1 /\ \A k \in 1..(m - 1) : f[k] = segs[k]
      BY <1>2, <2>3, <3>1, FrontIs
    <3>3. Len(f) >= n /\ \A k \in 1..n : f[k] = a[k]
      BY <1>3, <2>3, <3>2
    <3> QED
      BY <1>1, <2>1, <2>3, <3>1, <3>3 DEF Extends
  <2>4. CASE segs # <<>> /\ m = n
    <3>1. segs = a
      BY <1>1, <1>2, <1>3, <2>4, SeqEqual
    <3> QED
      BY <1>5, <2>4, <3>1
  <2> QED
    BY <1>3, <2>2, <2>3, <2>4
<1>6. CASE s \notin {<<>>, <<".">>, <<".", ".">>}
  <2>1. WithSegment(segs, s) = Append(segs, s)
    BY <1>6 DEF WithSegment
  <2>2. PICK t \in Seq(Names) : t = Append(segs, s)
    BY <2>1
  <2>3. Len(t) = m + 1 /\ \A k \in 1..m : t[k] = segs[k]
    BY <1>2, <2>2
  <2>4. Len(t) >= n /\ \A k \in 1..n : t[k] = a[k]
    BY <1>3, <2>3
  <2> QED
    BY <1>1, <2>1, <2>2, <2>4 DEF Extends
<1> QED
  BY <1>4, <1>5, <1>6

(* What goes on after a path is behind it and a slash.                     *)
Behind(path, a) == \E x \in Seq(Chars) : path = a \o (<<"/">> \o x)

(* Segments that go on after others make a path behind theirs.           *)
LEMMA JoinedBehind ==
    ASSUME NEW a \in Seq(Names), NEW segs \in Seq(Names), Extends(segs, a), segs # a
    PROVE  Behind(Joined(segs), Joined(a))
<1>1. PICK n \in Nat : n = Len(a)
  OBVIOUS
<1>2. PICK m \in Nat : m = Len(segs)
  OBVIOUS
<1>3. m >= n /\ \A k \in 1..n : segs[k] = a[k]
  BY <1>1, <1>2 DEF Extends
<1>4. m > n
  BY <1>1, <1>2, <1>3, SeqEqual
<1> DEFINE Part(k) == SubSeq(segs, 1, k)
           d == m - n
<1>5. ASSUME NEW k \in 0..(m - 1)
      PROVE  /\ Part(k) \in Seq(Names)
             /\ segs[k + 1] \in Names
             /\ Part(k + 1) = Append(Part(k), segs[k + 1])
  <2>1. k + 1 \in 1..m /\ k \in Nat
    BY <1>2
  <2>2. Part(k) = [i \in 1..k |-> segs[i]] /\ Part(k + 1) = [i \in 1..(k + 1) |-> segs[i]]
    BY <1>2, <2>1
  <2>3. \A i \in 1..(k + 1) : segs[i] \in Names
    BY <1>2
  <2>4. Part(k) \in Seq(Names) /\ segs[k + 1] \in Names
    BY <2>1, <2>2, <2>3
  <2>5. k + 1 \in 1..Len(segs)
    BY <1>2, <2>1
  <2>6. Part(k + 1) = Append(Part(k), segs[k + 1])
    <3>1. CASE k = 0
      <4>1. Part(1) = <<segs[1]>>
        BY <2>5, <3>1, SubSeqOne
      <4>2. Part(0) = <<>>
        OBVIOUS
      <4>3. Append(<<>>, segs[1]) = <<segs[1]>>
        OBVIOUS
      <4> QED
        BY <3>1, <4>1, <4>2, <4>3
    <3>2. CASE k # 0
      <4>1. 1 \in 1..k
        BY <2>1, <3>2
      <4> QED
        BY <2>1, <2>5, <4>1, SubSeqMore
    <3> QED
      BY <3>1, <3>2
  <2> QED
    BY <2>4, <2>6
<1>6. Part(n) = a
  <2>1. Part(n) = [i \in 1..n |-> segs[i]]
    BY <1>2, <1>4
  <2>2. a = [i \in 1..n |-> a[i]]
    BY <1>1
  <2> QED
    BY <1>3, <2>1, <2>2
<1>7. Part(m) = segs
  BY <1>2, SubSeqFull
<1> HIDE DEF Part
<1> DEFINE T == {k \in 1..d : Behind(Joined(Part(n + k)), Joined(a))}
<1>8. PICK o \in Seq(Chars) : o = Joined(a)
  BY JoinedType
<1>9. 1 \in T
  <2>1. n \in 0..(m - 1)
    BY <1>4
  <2>2. PICK s \in Names : s = segs[n + 1]
    BY <1>5, <2>1
  <2>3. Part(n + 1) = Append(a, s)
    BY <1>5, <1>6, <2>1, <2>2
  <2>4. Joined(Append(a, s)) = Joined(a) \o (<<"/">> \o s)
    BY JoinedAppend
  <2>5. s \in Seq(Chars)
    BY DEF Names
  <2>6. Behind(Joined(Part(n + 1)), Joined(a))
    BY <2>3, <2>4, <2>5, Zenon DEF Behind
  <2> QED
    BY <1>4, <2>6
<1>10. ASSUME NEW k \in 2..d, k - 1 \in T PROVE k \in T
  <2>1. PICK j : j = n + (k - 1)
    OBVIOUS
  <2>2. j \in 0..(m - 1) /\ j + 1 = n + k /\ k \in 1..d
    BY <1>4, <2>1
  <2>3. PICK x \in Seq(Chars) : Joined(Part(j)) = Joined(a) \o (<<"/">> \o x)
    BY <1>10, <2>1 DEF Behind
  <2>4. PICK s \in Names : s = segs[j + 1]
    BY <1>5, <2>2
  <2>5. PICK p \in Seq(Names) : p = Part(j)
    BY <1>5, <2>2
  <2>6. Part(j + 1) = Append(p, s)
    BY <1>5, <2>2, <2>4, <2>5
  <2>7. Joined(Append(p, s)) = Joined(p) \o (<<"/">> \o s)
    BY JoinedAppend
  <2>8. PICK u \in Seq(Chars) : u = <<"/">> \o s
    <3>1. <<"/">> \o s \in Seq(Chars)
      BY CharTypes, ConcatProperties DEF Names
    <3> QED
      BY <3>1
  <2>9. PICK y \in Seq(Chars) : y = <<"/">>
    BY CharTypes
  <2>10. (o \o (y \o x)) \o u = o \o (y \o (x \o u))
    <3>1. Associative(Chars)
      BY ConcatIsAssociative
    <3>2. PICK z \in Seq(Chars) : z = y \o x
      BY ConcatProperties
    <3>3. (o \o z) \o u = o \o (z \o u)
      BY <3>1, Zenon DEF Associative
    <3>4. (y \o x) \o u = y \o (x \o u)
      BY <3>1, Zenon DEF Associative
    <3> QED
      BY <3>2, <3>3, <3>4
  <2>11. x \o u \in Seq(Chars)
    BY ConcatProperties
  <2>12. Joined(Part(j + 1)) = Joined(a) \o (<<"/">> \o (x \o u))
    BY <1>8, <2>3, <2>5, <2>6, <2>7, <2>8, <2>9, <2>10, Zenon
  <2>13. Behind(Joined(Part(j + 1)), Joined(a))
    BY <2>11, <2>12, Zenon DEF Behind
  <2> QED
    BY <2>2, <2>13
<1>11. d \in T
  <2>1. d \in Nat /\ d \in 1..d
    BY <1>4
  <2> HIDE DEF T, d
  <2> QED
    BY <1>9, <1>10, <2>1, IndexInduction
<1>12. n + d = m
  BY <1>4
<1> QED
  BY <1>7, <1>11, <1>12

(* The directory of a path lacks its last segment.                       *)
LEMMA DirectoryOfJoined ==
    ASSUME NEW a \in Seq(Names), a # <<>>
    PROVE  Directory(Joined(a)) = Placed(Front(a))
<1>1. Front(a) \in Seq(Names)
  BY SplitLast
<1>2. Parent(Joined(a)) = Joined(Front(a))
  BY ParentOfJoined
<1>3. Joined(Front(a)) = <<>> <=> Front(a) = <<>>
  BY <1>1, JoinedNothing, JoinedEnds
<1> QED
  BY <1>2, <1>3 DEF Directory, Placed

(* A place of path that path_lookup tries.                                 *)
Tried(path, n, present) ==
  /\ n \in 0..Len(path) /\ CharAt(path, n + 1) \in SlashOrEnd
  /\ ExistsIn(Canon(SubSeq(path, 1, n)), present)

(* The root and the directories are there, with the file and without it. *)
LEMMA NodeFacts ==
    /\ <<"/">> # Doc /\ ExistsIn(<<"/">>, TRUE) /\ ExistsIn(<<"/">>, FALSE)
    /\ \A path, present : path \in DOMAIN Tree /\ Tree[path] = "dir" => ExistsIn(path, present)
  BY DiskAssumption DEF ExistsIn

(* Behind a regular file no slash leads out of it again: its directory     *)
(* would have been found there, and later.                                 *)
LEMMA NothingLater ==
    ASSUME NEW path \in Paths, NEW present \in BOOLEAN,
           NEW g, Segmented(g, path, Len(path) + 1),
           NEW l \in 1..Len(path), CharAt(path, l + 1) \in SlashOrEnd,
           NEW a, a = g[l + 1],
           Placed(a) \in DOMAIN Tree, Tree[Placed(a)] # "dir",
           \A n \in (l + 1)..Len(path) : ~Tried(path, n, present)
    PROVE  a # <<>> /\ Extends(g[Len(path) + 1], a)
<1>1. path \in Seq(Chars) /\ path # <<>> /\ path[1] = "/"
  BY DEF Paths
<1>2. PICK m \in Nat : m = Len(path)
  BY <1>1
<1>3. \A i \in 1..(m + 1) : g[i] \in Seq(Names)
  BY <1>2, SegmentsType
<1>4. \A i \in 2..(m + 1) : g[i] = SegStep(path, i, g[i - 1])
  <2>1. Segmented(g, path, m + 1) /\ m + 1 \in Nat
    BY <1>2
  <2> QED
    BY <2>1, SegmentValues
<1>5. a # <<>>
  BY DiskAssumption DEF Placed
<1>6. a \in Seq(Names) /\ l + 1 \in 2..(m + 1) /\ l \in Nat
  BY <1>2, <1>3
<1>7. /\ Directory(Joined(a)) = Placed(Front(a))
      /\ Placed(Front(a)) \in DOMAIN Tree /\ Tree[Placed(Front(a))] = "dir"
  <2>1. Placed(a) = Joined(a) /\ Joined(a) # <<"/">>
    <3>1. Joined(a)[Len(Joined(a))] # "/"
      BY <1>5, <1>6, JoinedEnds
    <3>2. \A p : p = <<"/">> => Len(p) = 1 /\ p[1] = "/"
      OBVIOUS
    <3> QED
      BY <1>5, <3>1, <3>2 DEF Placed
  <2>2. Directory(Joined(a)) = Placed(Front(a))
    BY <1>5, <1>6, DirectoryOfJoined
  <2> QED
    BY <2>1, <2>2, DiskAssumption
<1> DEFINE T == {k \in 1..(m - l + 1) : Extends(g[l + k], a)}
<1>8. 1 \in T
  <2>1. Extends(a, a)
    BY <1>6 DEF Extends
  <2> QED
    BY <1>2, <2>1
<1>9. ASSUME NEW k \in 2..(m - l + 1), k - 1 \in T PROVE k \in T
  <2>1. PICK i : i = l + k
    OBVIOUS
  <2>2. /\ i - 1 = l + (k - 1) /\ i \in 2..(m + 1) /\ i - 1 \in (l + 1)..m
        /\ i - 1 \in 1..(m + 1) /\ k \in 1..(m - l + 1) /\ i \in 1..(m + 1)
        /\ i - 1 \in 1..m /\ (i - 1) + 1 = i
    BY <1>2, <2>1
  <2>3. PICK segs \in Seq(Names) : segs = g[i - 1]
    BY <1>3, <2>2
  <2>4. Extends(segs, a)
    BY <1>9, <2>2, <2>3
  <2>5. g[i] = SegStep(path, i, segs) /\ g[i] \in Seq(Names)
    BY <1>3, <1>4, <2>2, <2>3
  <2>6. CASE CharAt(path, i) \notin SlashOrEnd
    <3>1. g[i] = segs
      BY <2>5, <2>6 DEF SegStep
    <3> QED
      BY <2>1, <2>2, <2>4, <3>1
  <2>7. CASE CharAt(path, i) \in SlashOrEnd
    <3>1. PICK s : s = Segment(path, i)
      OBVIOUS
    <3>2. g[i] = WithSegment(segs, s)
      BY <2>5, <2>7, <3>1 DEF SegStep
    <3>3. ~(segs = a /\ s = <<".", ".">> /\ a # <<>>)
      <4> SUFFICES ASSUME segs = a, s = <<".", ".">> PROVE FALSE
        OBVIOUS
      <4>1. g[i] = Front(a)
        <5>1. <<".", ".">> # <<".">> /\ <<".", ".">> # <<>>
          OBVIOUS
        <5> QED
          BY <1>5, <3>2, <5>1 DEF WithSegment
      <4>2. PICK n : n = i - 1
        OBVIOUS
      <4>3. n \in 1..Len(path) /\ n + 1 = i
        BY <1>2, <2>2, <4>2
      <4>4. Canon(SubSeq(path, 1, n)) = Placed(Front(a))
        BY <2>7, <4>1, <4>3, PrefixResolves
      <4>5. ExistsIn(Canon(SubSeq(path, 1, n)), present)
        BY <1>7, <4>4, NodeFacts
      <4>6. Tried(path, n, present)
        BY <1>2, <2>7, <4>3, <4>5 DEF Tried
      <4> QED
        BY <1>2, <2>2, <4>2, <4>6
    <3>4. Extends(g[i], a)
      BY <1>6, <2>4, <2>5, <3>2, <3>3, ExtendsStep
    <3> QED
      BY <2>1, <2>2, <3>4
  <2> QED
    BY <2>6, <2>7
<1> HIDE DEF T
<1>10. m - l + 1 \in T
  <2>1. m - l + 1 \in Nat /\ m - l + 1 \in 1..(m - l + 1)
    BY <1>2
  <2> QED
    BY <1>8, <1>9, <2>1, IndexInduction
<1>11. l + (m - l + 1) = m + 1
  BY <1>2
<1> QED
  BY <1>2, <1>5, <1>10, <1>11 DEF T

(* The path of segments is a path.                                       *)
LEMMA PlacedType ==
    ASSUME NEW a \in Seq(Names)
    PROVE  Placed(a) \in Seq(Chars)
BY JoinedType, CharTypes DEF Placed

(* What a URL asks for is a path.                                        *)
LEMMA AskedIsPath ==
    ASSUME NEW url \in Seq(Chars)
    PROVE  Asked(url) \in Paths
<1>1. PICK n \in Nat : n = Len(url)
  OBVIOUS
<1>2. PICK q : q = BeforeQuery(url)
  OBVIOUS
<1>3. q \in Seq(Chars)
  <2> DEFINE S == {i \in DOMAIN url : url[i] = "?"} \cup {Len(url) + 1}
  <2>1. S \subseteq Nat /\ S # {} /\ S \subseteq 1..(n + 1)
    <3>1. DOMAIN url = 1..n
      BY <1>1
    <3> QED
      BY <1>1, <3>1
  <2>2. PICK k \in S : \A y \in S : k <= y
    <3> HIDE DEF S
    <3> QED
      BY <2>1, LeastElement
  <2>3. Min(S) \in S
    <3> HIDE DEF S
    <3> QED
      BY <2>2 DEF Min
  <2>4. PICK m : m = Min(S)
    OBVIOUS
  <2>5. m \in 1..(n + 1)
    <3> HIDE DEF S
    <3> QED
      BY <2>1, <2>3, <2>4
  <2>6. q = SubSeq(url, 1, m - 1)
    BY <1>2, <2>4 DEF BeforeQuery
  <2>7. \A i \in 1..(m - 1) : url[i] \in Chars
    BY <1>1, <2>5
  <2>8. SubSeq(url, 1, m - 1) \in Seq(Chars)
    BY <2>5, <2>7, SubSeqProperties
  <2> QED
    BY <2>6, <2>8
<1>4. Decoded(q) \in Seq(Chars)
  <2>1. \A i \in DOMAIN q : (IF q[i] \in DOMAIN Escapes THEN Escapes[q[i]] ELSE q[i]) \in Chars
    BY <1>3, PathAssumption
  <2>2. PICK m \in Nat : DOMAIN q = 1..m
    BY <1>3
  <2>3. Decoded(q) = [i \in 1..m |-> IF q[i] \in DOMAIN Escapes THEN Escapes[q[i]] ELSE q[i]]
    BY <2>2 DEF Decoded
  <2> QED
    BY <2>1, <2>2, <2>3
<1>5. PICK d \in Seq(Chars) : d = Decoded(q)
  BY <1>4
<1>6. Asked(url) = Docroot \o d
  BY <1>2, <1>5 DEF Asked
<1>7. Docroot \in Seq(Chars) /\ Docroot # <<>> /\ Docroot[1] = "/"
  BY PathAssumption
<1>8. PICK p : p = Docroot \o d
  OBVIOUS
<1>9. p \in Seq(Chars) /\ Len(p) > 0 /\ p[1] = "/"
  <2>1. Len(Docroot) \in Nat \ {0} /\ Len(d) \in Nat
    BY <1>7, EmptySeq
  <2>2. Docroot \o d \in Seq(Chars) /\ Len(Docroot \o d) = Len(Docroot) + Len(d)
    BY <1>7, ConcatProperties
  <2>3. 1 \in 1..(Len(Docroot) + Len(d)) /\ 1 <= Len(Docroot)
    BY <2>1
  <2>4. (Docroot \o d)[1] = Docroot[1]
    BY <1>7, <2>3, ConcatProperties
  <2> QED
    BY <1>7, <1>8, <2>1, <2>2, <2>4
<1>10. p # <<>>
  BY <1>9
<1>11. p \in Paths
  BY <1>9, <1>10 DEF Paths
<1> QED
  BY <1>6, <1>8, <1>11

(* canonpath of nothing is the root.                                     *)
LEMMA CanonOfNothing == Canon(<<>>) = <<"/">>
<1>1. PICK p \in Seq(Chars) : p = <<>>
  BY CharTypes
<1>2. Len(p) = 0
  BY <1>1
<1>3. PICK f : Scans(f, p, 0) /\ Canon(p) = Cleaned(f[0].out)
  BY <1>2, CanonUnfolds
<1>4. f[0] = [from |-> 1, out |-> <<>>]
  BY <1>3, ScanValues
<1>5. f[0].out = <<>>
  BY <1>4
<1>6. Canon(p) = Cleaned(<<>>)
  BY <1>3, <1>5
<1>7. Cleaned(<<>>) = <<"/">>
  BY DEF Cleaned
<1> QED
  BY <1>1, <1>6, <1>7

(* Where path_lookup ends: at the longest beginning that exists.           *)
LEMMA LongestTried ==
    ASSUME NEW path \in Paths, NEW present \in BOOLEAN
    PROVE  \E l : /\ l = Max({n \in 0..Len(path) :
                                /\ CharAt(path, n + 1) \in SlashOrEnd
                                /\ ExistsIn(Canon(SubSeq(path, 1, n)), present)})
                  /\ Tried(path, l, present)
                  /\ \A n \in (l + 1)..Len(path) : ~Tried(path, n, present)
<1>1. path \in Seq(Chars) /\ path # <<>> /\ path[1] = "/"
  BY DEF Paths
<1>2. PICK m \in Nat \ {0} : m = Len(path)
  BY <1>1, EmptySeq
<1> DEFINE S == {n \in 0..Len(path) : /\ CharAt(path, n + 1) \in SlashOrEnd
                                      /\ ExistsIn(Canon(SubSeq(path, 1, n)), present)}
<1>3. \A n : n \in S <=> Tried(path, n, present)
  BY DEF Tried
<1>4. 0 \in S
  <2>1. SubSeq(path, 1, 0) = <<>>
    OBVIOUS
  <2>2. Canon(<<>>) = <<"/">>
    BY CanonOfNothing
  <2>3. CharAt(path, 0 + 1) \in SlashOrEnd
    <3>1. 1 \in 1..Len(path) /\ 0 + 1 = 1
      BY <1>2
    <3>2. CharAt(path, 1) = "/"
      BY <1>1, <3>1, CharAtIs
    <3> QED
      BY <3>1, <3>2 DEF SlashOrEnd
  <2>4. ExistsIn(<<"/">>, present)
    BY NodeFacts, DiskAssumption
  <2>5. 0 \in 0..Len(path)
    BY <1>2
  <2> QED
    BY <2>1, <2>2, <2>3, <2>4, <2>5
<1>5. S \subseteq 0..m
  BY <1>2
<1> HIDE DEF S
<1>6. Max(S) \in S /\ \A y \in S : y <= Max(S)
  BY <1>2, <1>4, <1>5, MaxExists
<1>7. PICK l : l = Max(S)
  OBVIOUS
<1>8. ASSUME NEW n \in (l + 1)..Len(path) PROVE n \notin S
  <2>1. l \in 0..m
    BY <1>5, <1>6, <1>7
  <2>2. n \in Nat /\ ~(n <= l)
    BY <1>2, <2>1
  <2>3. \A y \in S : y <= l
    BY <1>6, <1>7
  <2> QED
    BY <2>2, <2>3
<1>9. Tried(path, l, present) /\ \A n \in (l + 1)..Len(path) : ~Tried(path, n, present)
  BY <1>3, <1>6, <1>7, <1>8
<1> QED
  BY <1>7, <1>9 DEF S

(* What is found first: the path itself if all of it exists, or else, if   *)
(* it is no directory, something the path goes on after.                   *)
LEMMA LongestIsNamed ==
    ASSUME NEW path \in Paths, NEW present \in BOOLEAN, NEW l,
           Tried(path, l, present),
           \A n \in (l + 1)..Len(path) : ~Tried(path, n, present),
           NEW phys, phys = Canon(SubSeq(path, 1, l))
    PROVE  /\ phys \in Seq(Chars) /\ phys \in DOMAIN Tree /\ (phys = Doc => present)
           /\ l = Len(path) => phys = Resolved(path)
           /\ Tree[phys] # "dir" =>
                \/ phys = Resolved(path)
                \/ IsPrefix(Append(phys, "/"), Resolved(path))
<1>1. path \in Seq(Chars) /\ path # <<>> /\ path[1] = "/"
  BY DEF Paths
<1>2. PICK m \in Nat \ {0} : m = Len(path)
  BY <1>1, EmptySeq
<1>3. /\ l \in 0..m /\ CharAt(path, l + 1) \in SlashOrEnd
      /\ phys \in DOMAIN Tree /\ (phys = Doc => present)
  BY <1>2 DEF Tried, ExistsIn
<1>4. CASE l = 0
  <2>1. SubSeq(path, 1, 0) = <<>>
    OBVIOUS
  <2>2. phys = <<"/">>
    BY <1>4, <2>1, CanonOfNothing
  <2>3. Tree[phys] = "dir" /\ phys \in Seq(Chars)
    BY <2>2, CharTypes, DiskAssumption
  <2> QED
    BY <1>2, <1>3, <1>4, <2>3
<1>5. CASE l # 0
  <2>1. PICK g : /\ Segmented(g, path, m + 1)
                 /\ Resolved(path) = Placed(g[m + 1])
    BY <1>2, ResolvedUnfolds DEF Placed
  <2>2. l \in 1..m /\ l + 1 \in 1..(m + 1) /\ m + 1 \in 1..(m + 1)
    BY <1>2, <1>3, <1>5
  <2>3. \A i \in 1..(m + 1) : g[i] \in Seq(Names)
    BY <1>2, <2>1, SegmentsType
  <2>4. PICK a \in Seq(Names) : a = g[l + 1]
    BY <2>2, <2>3
  <2>5. PICK c \in Seq(Names) : c = g[m + 1]
    BY <2>2, <2>3
  <2>6. phys = Placed(a)
    <3>1. l \in 1..Len(path) /\ Segmented(g, path, Len(path) + 1)
      BY <1>2, <2>1, <2>2
    <3>2. Canon(SubSeq(path, 1, l)) = Placed(g[l + 1])
      BY <1>3, <3>1, PrefixResolves
    <3> QED
      BY <2>4, <3>2
  <2>7. phys \in Seq(Chars)
    BY <2>6, PlacedType
  <2>8. l = m => phys = Resolved(path)
    BY <2>1, <2>4, <2>6
  <2>9. ASSUME Tree[phys] # "dir"
        PROVE  phys = Resolved(path) \/ IsPrefix(Append(phys, "/"), Resolved(path))
    <3>1. a # <<>> /\ Extends(c, a)
      <4>1. l \in 1..Len(path) /\ Segmented(g, path, Len(path) + 1)
        BY <1>2, <2>1, <2>2
      <4>2. Placed(a) \in DOMAIN Tree /\ Tree[Placed(a)] # "dir"
        BY <1>3, <2>6, <2>9
      <4>3. a # <<>> /\ Extends(g[Len(path) + 1], a)
        BY <1>3, <2>4, <4>1, <4>2, NothingLater
      <4> QED
        BY <1>2, <2>5, <4>3
    <3>2. CASE c = a
      BY <2>1, <2>5, <2>6, <3>2
    <3>3. CASE c # a
      <4>1. PICK x \in Seq(Chars) : Joined(c) = Joined(a) \o (<<"/">> \o x)
        BY <3>1, <3>3, JoinedBehind DEF Behind
      <4>2. c # <<>>
        <5>1. Len(a) \in Nat \ {0} /\ Len(c) >= Len(a)
          BY <3>1, EmptySeq DEF Extends
        <5> QED
          BY <5>1
      <4>3. PICK o \in Seq(Chars) : o = Joined(a)
        BY JoinedType
      <4>4. PICK y \in Seq(Chars) : y = <<"/">>
        BY CharTypes
      <4>5. o \o (y \o x) = (o \o y) \o x
        <5>1. Associative(Chars)
          BY ConcatIsAssociative
        <5> QED
          BY <5>1, Zenon DEF Associative
      <4>6. PICK u \in Seq(Chars) : u = o \o y
        BY ConcatProperties
      <4>7. Append(o, "/") = u
        BY <4>4, <4>6, CharTypes, AppendIsConcat
      <4>8. IsPrefix(u, u \o x)
        BY PrefixOfConcat
      <4>9. Resolved(path) = u \o x
        BY <2>1, <2>5, <4>1, <4>2, <4>3, <4>4, <4>5, <4>6 DEF Placed
      <4>10. phys = o
        BY <2>6, <3>1, <4>3 DEF Placed
      <4> QED
        BY <4>7, <4>8, <4>9, <4>10
    <3> QED
      BY <3>2, <3>3
  <2> QED
    BY <1>2, <1>3, <2>7, <2>8, <2>9
<1> QED
  BY <1>4, <1>5

(* A path under the document root that is not the root itself is behind    *)
(* its slash, and so is what is beneath the root.                          *)
LEMMA UnderRoot ==
    ASSUME NEW phys \in Seq(Chars), InRoot(phys)
    PROVE  /\ phys # Docroot => IsPrefix(Append(Docroot, "/"), phys)
           /\ \A name \in Seq(Chars) : IsPrefix(Append(Docroot, "/"), Beneath(phys, name))
<1>1. Docroot \in Seq(Chars)
  BY PathAssumption
<1>2. PICK n \in Nat : n = Len(Docroot)
  BY <1>1
<1>3. PICK m \in Nat : m = Len(phys)
  OBVIOUS
<1>4. /\ n <= m /\ \A i \in 1..n : Docroot[i] = phys[i]
      /\ CharAt(phys, n + 1) \in SlashOrEnd
  <2>1. IsPrefix(Docroot, phys) /\ CharAt(phys, n + 1) \in SlashOrEnd
    BY <1>2 DEF InRoot
  <2> QED
    BY <1>1, <1>2, <1>3, <2>1, PrefixIff
<1>5. m > n => phys[n + 1] = "/"
  <2> SUFFICES ASSUME m > n PROVE phys[n + 1] = "/"
    OBVIOUS
  <2>1. n + 1 \in 1..Len(phys)
    BY <1>3
  <2> QED
    BY <1>4, <2>1, CharAtIs DEF SlashOrEnd
<1>6. PICK root : root = Append(Docroot, "/")
  OBVIOUS
<1>7. /\ root \in Seq(Chars) /\ Len(root) = n + 1 /\ root[n + 1] = "/"
      /\ \A i \in 1..n : root[i] = Docroot[i]
  BY <1>1, <1>2, <1>6, CharTypes, AppendProperties
<1>8. ASSUME NEW p \in Seq(Chars), Len(p) >= n + 1, p[n + 1] = "/",
             \A i \in 1..n : p[i] = phys[i]
      PROVE  IsPrefix(root, p)
  <2>1. \A i \in 1..(n + 1) : root[i] = p[i]
    <3> SUFFICES ASSUME NEW i \in 1..(n + 1) PROVE root[i] = p[i]
      OBVIOUS
    <3>1. i \in 1..n \/ i = n + 1
      BY <1>2
    <3> QED
      BY <1>4, <1>7, <1>8, <3>1
  <2>2. Len(root) <= Len(p) /\ \A i \in 1..Len(root) : root[i] = p[i]
    BY <1>7, <1>8, <2>1
  <2> QED
    BY <1>7, <2>2, PrefixIff
<1>9. ASSUME phys # Docroot PROVE IsPrefix(root, phys)
  <2>1. m # n
    BY <1>1, <1>2, <1>3, <1>4, <1>9, SeqEqual
  <2>2. m > n
    BY <1>4, <2>1
  <2>3. Len(phys) >= n + 1 /\ phys[n + 1] = "/"
    BY <1>3, <1>5, <2>2
  <2> QED
    BY <1>8, <2>3
<1>10. ASSUME NEW name \in Seq(Chars) PROVE IsPrefix(root, Beneath(phys, name))
  <2>1. PICK v : v = Append(phys, "/")
    OBVIOUS
  <2>2. /\ v \in Seq(Chars) /\ Len(v) = m + 1 /\ v[m + 1] = "/"
        /\ \A i \in 1..m : v[i] = phys[i]
    BY <1>3, <2>1, CharTypes, AppendProperties
  <2>3. IsPrefix(root, v)
    <3>1. n + 1 \in 1..(m + 1) /\ \A i \in 1..n : i \in 1..m
      BY <1>4
    <3>2. v[n + 1] = "/"
      <4>1. CASE n = m
        BY <2>2, <4>1
      <4>2. CASE n # m
        <5>1. m > n /\ n + 1 \in 1..m
          BY <1>4, <4>2
        <5> QED
          BY <1>5, <2>2, <5>1
      <4> QED
        BY <4>1, <4>2
    <3>3. Len(v) >= n + 1 /\ \A i \in 1..n : v[i] = phys[i]
      BY <1>4, <2>2, <3>1
    <3> QED
      BY <1>8, <2>2, <3>2, <3>3
  <2>4. PICK b : b = v \o name
    OBVIOUS
  <2>5. b = Beneath(phys, name)
    BY <2>1, <2>4 DEF Beneath
  <2>6. IsPrefix(v, b) /\ b \in Seq(Chars)
    BY <2>2, <2>4, PrefixOfConcat, ConcatProperties
  <2>7. IsPrefix(root, b)
    BY <1>7, <2>2, <2>3, <2>6, PrefixTransitive
  <2> QED
    BY <2>5, <2>7
<1> QED
  BY <1>6, <1>9, <1>10

(* A lookup that finds a node finds one that is there, and a regular file  *)
(* only under the root and where the URL names it.                         *)
LEMMA LookupIsNamed ==
    ASSUME NEW url \in Urls \cup {DocUrl}, NEW present \in BOOLEAN,
           NEW l, l = LookupIn(url, present)
    PROVE  /\ l.phys = Doc => present
           /\ l.found \notin {"none", "redirect"} /\ Tree[l.phys] = "reg" =>
                IsNamed(url, l.phys)
<1>1. url \in Seq(Chars) /\ IndexFile \in Seq(Chars)
  BY PathAssumption
<1>2. PICK buf \in Paths : buf = Asked(url)
  BY <1>1, AskedIsPath
<1>3. PICK longest :
        /\ longest = Max({n \in 0..Len(buf) :
                            /\ CharAt(buf, n + 1) \in SlashOrEnd
                            /\ ExistsIn(Canon(SubSeq(buf, 1, n)), present)})
        /\ Tried(buf, longest, present)
        /\ \A n \in (longest + 1)..Len(buf) : ~Tried(buf, n, present)
  BY LongestTried
<1>4. PICK phys : phys = Canon(SubSeq(buf, 1, longest))
  OBVIOUS
<1>5. PICK r : r = Resolved(buf)
  OBVIOUS
<1>6. /\ phys \in Seq(Chars) /\ phys \in DOMAIN Tree /\ (phys = Doc => present)
      /\ longest = Len(buf) => phys = r
      /\ Tree[phys] # "dir" => phys = r \/ IsPrefix(Append(phys, "/"), r)
  BY <1>3, <1>4, <1>5, LongestIsNamed
<1>7. PICK info : info = SubSeq(buf, longest + 1, Len(buf))
  OBVIOUS
<1>8. PICK index : index = Beneath(phys, IndexFile)
  OBVIOUS
<1>9. PICK inside : inside = (Decodes(BeforeQuery(url)) /\ InRoot(phys))
  OBVIOUS
<1>0. inside => InRoot(phys)
  BY <1>9, Zenon
<1>10. l = CASE ~inside -> [found |-> "none", phys |-> phys]
             [] inside /\ IsRegular(phys) -> [found |-> "file", phys |-> phys]
             [] inside /\ ~IsRegular(phys) /\ (Tree[phys] # "dir" \/ info # <<>>) ->
                  [found |-> "none", phys |-> phys]
             [] OTHER ->
                  CASE Last(buf) # "/" -> [found |-> "redirect", phys |-> phys]
                    [] Last(buf) = "/" /\ ExistsIn(index, present) /\ IsRegular(index) ->
                         [found |-> "file", phys |-> index]
                    [] OTHER -> [found |-> "dir", phys |-> phys]
  BY <1>2, <1>3, <1>4, <1>7, <1>8, <1>9, Zenon DEF LookupIn
<1>11. \/ l.found \in {"none", "redirect"} /\ l.phys = phys
       \/ l.found = "file" /\ l.phys = phys /\ InRoot(phys)
       \/ l.phys = phys /\ Tree[phys] = "dir"
       \/ /\ l.found = "file" /\ l.phys = index /\ ExistsIn(index, present)
          /\ InRoot(phys) /\ info = <<>>
  <2>1. CASE ~inside
    <3>1. l = [found |-> "none", phys |-> phys]
      BY <1>10, <2>1
    <3> QED
      BY <3>1
  <2>2. CASE inside /\ IsRegular(phys)
    <3>1. l = [found |-> "file", phys |-> phys]
      BY <1>10, <2>2
    <3> QED
      BY <1>0, <2>2, <3>1
  <2>3. CASE inside /\ ~IsRegular(phys) /\ (Tree[phys] # "dir" \/ info # <<>>)
    <3>1. l = [found |-> "none", phys |-> phys]
      BY <1>10, <2>3
    <3> QED
      BY <3>1
  <2>4. CASE inside /\ ~IsRegular(phys) /\ Tree[phys] = "dir" /\ info = <<>>
    <3> DEFINE opened == CASE Last(buf) # "/" -> [found |-> "redirect", phys |-> phys]
                           [] Last(buf) = "/" /\ ExistsIn(index, present) /\ IsRegular(index) ->
                                [found |-> "file", phys |-> index]
                           [] OTHER -> [found |-> "dir", phys |-> phys]
    <3>1. \/ opened = [found |-> "redirect", phys |-> phys]
          \/ opened = [found |-> "file", phys |-> index] /\ ExistsIn(index, present)
          \/ opened = [found |-> "dir", phys |-> phys]
      OBVIOUS
    <3> HIDE DEF opened
    <3>2. l = opened
      BY <1>10, <2>4 DEF opened
    <3>3. CASE opened = [found |-> "redirect", phys |-> phys]
      BY <3>2, <3>3
    <3>4. CASE opened = [found |-> "file", phys |-> index] /\ ExistsIn(index, present)
      BY <1>0, <2>4, <3>2, <3>4
    <3>5. CASE opened = [found |-> "dir", phys |-> phys]
      BY <2>4, <3>2, <3>5
    <3> QED
      BY <3>1, <3>3, <3>4, <3>5
  <2> QED
    BY <2>1, <2>2, <2>3, <2>4
<1>12. Named[url] = r
  BY <1>2, <1>5 DEF Named
<1>13. l.phys = Doc => present
  BY <1>6, <1>11 DEF ExistsIn
<1>14. ASSUME l.found = "file", l.phys = phys, InRoot(phys), Tree[phys] = "reg"
       PROVE  IsNamed(url, phys)
  <2>1. phys # Docroot
    BY <1>14, DiskAssumption
  <2>2. IsPrefix(Append(Docroot, "/"), phys)
    BY <1>6, <1>14, <2>1, UnderRoot
  <2> QED
    BY <1>6, <1>12, <1>14, <2>2 DEF IsNamed
<1>15. ASSUME l.phys = index, InRoot(phys), info = <<>>
       PROVE  IsNamed(url, index)
  <2>1. longest = Len(buf)
    <3>1. PICK n \in Nat : n = Len(buf)
      BY DEF Paths
    <3>2. longest \in 0..n
      BY <1>3, <3>1 DEF Tried
    <3> SUFFICES ASSUME longest < n PROVE FALSE
      BY <3>1, <3>2
    <3>3. \A i \in (longest + 1)..n : buf[i] \in Chars
      BY <3>1, <3>2 DEF Paths
    <3>4. Len(SubSeq(buf, longest + 1, n)) = n - (longest + 1) + 1
      BY <3>2, <3>3, SubSeqProperties
    <3>5. Len(info) # 0
      BY <1>7, <3>1, <3>2, <3>4
    <3> QED
      BY <1>15, <3>5
  <2>2. index = Beneath(r, IndexFile)
    BY <1>6, <1>8, <2>1
  <2>3. IsPrefix(Append(Docroot, "/"), index)
    BY <1>1, <1>6, <1>8, <1>15, UnderRoot
  <2> QED
    BY <1>12, <2>2, <2>3 DEF IsNamed
<1> QED
  BY <1>11, <1>13, <1>14, <1>15

-----------------------------------------------------------------------------
USE FileBounds

(* What the conditional headers can lead to, and when it is a 304.         *)
LEMMA PreconditionCodes ==
    ASSUME NEW h, NEW method, NEW s
    PROVE  /\ Precondition(h, method, s) \in {200, 304, 412}
           /\ Precondition(h, method, s) = 304 => Matches(h, s)
<1> DEFINE checks == <<
        [fails |-> h.ims # NoDate /\ h.ims >= s.mtime, code |-> 304],
        [fails |-> h.im # NoTags /\ ~Lists(h.im, Etag(s)), code |-> 412],
        [fails |-> h.ir, code |-> 412],
        [fails |-> h.ius # NoDate /\ h.ius <= s.mtime, code |-> 412],
        [fails |-> h.inm # NoTags /\ Lists(h.inm, Etag(s)),
         code |-> IF method \in {"GET", "HEAD"} THEN 304 ELSE 412] >>
           failing == {i \in DOMAIN checks : checks[i].fails}
<1>1. DOMAIN checks = 1..5
  OBVIOUS
<1>2. failing # {} => Min(failing) \in failing
  <2> SUFFICES ASSUME failing # {}
               PROVE  \E x \in failing : \A y \in failing : x <= y
    BY DEF Min
  <2> HIDE DEF checks
  <2>1. failing \subseteq 1..5
    BY <1>1
  <2>2. \A y \in failing : y \in {1, 2, 3, 4, 5}
    BY <2>1
  <2> HIDE DEF failing
  <2> QED
    BY <2>2
<1>3. \A i \in failing : i \in {1, 2, 3, 4, 5} /\ checks[i].fails
  BY <1>1
<1>4. /\ checks[1].code = 304 /\ checks[2].code = 412 /\ checks[3].code = 412
      /\ checks[4].code = 412 /\ checks[5].code \in {304, 412}
  OBVIOUS
<1>5. /\ checks[1].fails => Matches(h, s)
      /\ checks[5].fails => Matches(h, s)
  BY DEF Matches
<1>6. Precondition(h, method, s) = IF failing = {} THEN 200 ELSE checks[Min(failing)].code
  BY DEF Precondition
<1> HIDE DEF checks, failing
<1> QED
  BY <1>2, <1>3, <1>4, <1>5, <1>6

(* Before the first request there is a record of one.                      *)
LEMMA NoFileType == NoFile \in Requests(<<>>, NoHeaders, <<>>)
<1>1. 0 \in Inodes /\ 0 \in 0..MaxReadErrors /\ <<>> \in Seq(Inodes)
  BY DEF Inodes
<1>2. NoStat \in Stats
  BY <1>1 DEF Stats, NoStat
<1>3. ASSUME NEW b, b \in BOOLEAN
      PROVE  [pc |-> "idle", url |-> <<>>, method |-> "GET", headers |-> NoHeaders,
              phys |-> <<>>, s |-> NoStat, fd |-> 0, open |-> b,
              body |-> <<>>, status |-> 0, broken |-> b, errors |-> 0]
               \in Requests(<<>>, NoHeaders, <<>>)
  BY <1>1, <1>2, <1>3 DEF Requests, Statuses
<1> QED
  BY <1>3 DEF NoFile

(* An answer ends a request and changes nothing else of it.                *)
LEMMA AnsweredType ==
    ASSUME NEW url, NEW headers, NEW phys, NEW f \in Requests(url, headers, phys),
           NEW code \in Statuses
    PROVE  Answered(f, code) \in Requests(url, headers, phys)
<1> DEFINE R == Requests(url, headers, phys)
<1> SUFFICES ASSUME NEW b, b \in BOOLEAN
             PROVE  [f EXCEPT !.pc = "idle", !.status = code, !.open = b] \in R
  BY DEF Answered
<1>1. \A g \in R : [g EXCEPT !.pc = "idle"] \in R
  BY DEF Requests
<1>2. \A g \in R : [g EXCEPT !.status = code] \in R
  BY DEF Requests
<1>3. \A g \in R : [g EXCEPT !.open = b] \in R
  BY DEF Requests
<1> QED
  BY <1>1, <1>2, <1>3

(* A lookup is that of the time: with the file or without it.              *)
LEMMA LookupNow ==
    ASSUME NEW url \in Urls \cup {DocUrl}
    PROVE  \E present \in BOOLEAN :
             /\ present = (doc # 0)
             /\ Lookup(url) = Lookups[<<url, present>>]
             /\ Lookup(url) = LookupIn(url, present)
<1>1. PICK present \in BOOLEAN : present = (doc # 0)
  OBVIOUS
<1>2. Lookup(url) = Lookups[<<url, present>>]
  BY <1>1, Zenon DEF Lookup
<1>3. Lookups[<<url, present>>] = LookupIn(url, present)
  BY DEF Lookups
<1> QED
  BY <1>1, <1>2, <1>3

(* The file that is edited is found only while it is there.                *)
LEMMA LookupOfDoc ==
    /\ Lookup(DocUrl).found # "none" => doc # 0 /\ Lookup(DocUrl).phys = Doc
    /\ \A url \in Urls : Lookup(url).phys = Doc => doc # 0
<1>1. PICK present \in BOOLEAN :
        present = (doc # 0) /\ Lookup(DocUrl) = Lookups[<<DocUrl, present>>]
  BY LookupNow
<1>2. present = TRUE => Lookup(DocUrl).phys = Doc
  BY <1>1, DocAssumption
<1>3. present = FALSE => Lookup(DocUrl).found = "none"
  BY <1>1, DocAssumption
<1>4. ASSUME NEW url \in Urls, Lookup(url).phys = Doc PROVE doc # 0
  <2>1. PICK now \in BOOLEAN : now = (doc # 0) /\ Lookup(url) = LookupIn(url, now)
    BY LookupNow
  <2> QED
    BY <1>4, <2>1, LookupIsNamed
<1> QED
  BY <1>1, <1>2, <1>3, <1>4

(* A stat is of the version that the file has.                             *)
LEMMA StatFacts ==
    ASSUME Disk, NEW path
    PROVE  /\ StatOf(path) \in Stats
           /\ StatOf(path).ver <= edits + 1
           /\ ~backdated => StatOf(path).mtime = StatOf(path).ver
           /\ StatOf(path).ver # 0 =>
                \A i \in Inodes : inodes[i].ver = StatOf(path).ver => inodes[i] = StatOf(path)
           /\ path = Doc /\ doc # 0 =>
                /\ StatOf(path) = inodes[doc]
                /\ StatOf(path).ver = edits + 1
                /\ StatOf(path).ino = doc
                /\ StatOf(path).size <= MaxSize
           /\ path # Doc => StatOf(path) = [NoStat EXCEPT !.size = 1]
<1>1. doc \in Inodes
  BY DEF Disk, Inodes
<1>2. CASE path = Doc /\ doc # 0
  <2>1. StatOf(path) = inodes[doc]
    BY <1>2 DEF StatOf
  <2>2. inodes[doc] \in Stats
    BY <1>1 DEF Disk
  <2> QED
    BY <1>1, <1>2, <2>1, <2>2 DEF Disk
<1>3. CASE ~(path = Doc /\ doc # 0)
  <2>1. StatOf(path) = [ino |-> 0, ver |-> 0, size |-> 1, mtime |-> 0]
    BY <1>3 DEF StatOf, NoStat
  <2>2. StatOf(path) \in Stats
    BY <2>1 DEF Stats, Inodes
  <2>3. [NoStat EXCEPT !.size = 1] = [ino |-> 0, ver |-> 0, size |-> 1, mtime |-> 0]
    BY DEF NoStat
  <2>4. edits \in Nat
    BY DEF Disk
  <2> QED
    BY <1>3, <2>1, <2>2, <2>3, <2>4
<1> QED
  BY <1>2, <1>3
-----------------------------------------------------------------------------
(* The invariant holds at the start.                                       *)
LEMMA FileInitInv == FileInit => FileInv
<1> SUFFICES ASSUME FileInit PROVE FileInv
  OBVIOUS
<1> USE DEF FileInit, NoFile, NoStat, NoCopy
<1>1. Fields
  <2>1. 0 \in Inodes /\ <<>> \in Seq(Inodes) /\ 0 \in 0..MaxReadErrors
    BY DEF Inodes
  <2>2. [ino |-> 0, ver |-> 0, size |-> 0, mtime |-> 0] \in Stats
    BY DEF Stats, Inodes
  <2>3. file.open = FALSE /\ file.pc = "idle"
    OBVIOUS
  <2> QED
    BY <2>1, <2>2, <2>3 DEF Fields, Requests, Statuses
<1>2. Disk
  <2>1. inodes \in [Inodes -> Stats]
    BY DEF Stats, Inodes
  <2>2. /\ inodes[0] = [NoStat EXCEPT !.size = 1]
        /\ inodes[1] = [ino |-> 1, ver |-> 1, size |-> MaxSize, mtime |-> 1]
    BY DEF Inodes
  <2>3. \A i \in Inodes : i \notin {0, 1} => inodes[i] = NoStat
    BY DEF Inodes
  <2>4. 0 \in Inodes /\ 1 \in Inodes /\ Inodes \subseteq Nat
    BY DEF Inodes
  <2>5. ASSUME NEW i \in Inodes
        PROVE  /\ inodes[i].ver <= 1 /\ inodes[i].mtime = inodes[i].ver
               /\ i # 0 => inodes[i].size <= MaxSize
               /\ inodes[i].ver # 0 => i = 1
    <3>1. CASE i = 0
      BY <2>2, <3>1
    <3>2. CASE i = 1
      BY <2>2, <3>2
    <3>3. CASE i \notin {0, 1}
      BY <2>3, <3>3
    <3> QED
      BY <3>1, <3>2, <3>3
  <2>6. edits = 0 /\ doc = 1 /\ backdated = FALSE
    OBVIOUS
  <2>7. 0 + 1 = 1 /\ doc \in 0..edits + 1 /\ edits \in 0..MaxEdits
    BY <2>6
  <2>8. inodes[1].ver = edits + 1 /\ inodes[1].ino = 1
    BY <2>2, <2>6
  <2>9. /\ \A i \in Inodes : inodes[i].ver <= edits + 1
        /\ \A i, j \in Inodes : inodes[i].ver = inodes[j].ver /\ inodes[i].ver # 0 => i = j
    BY <2>5, <2>6, <2>7
  <2>10. backdated \in BOOLEAN
    OBVIOUS
  <2> QED
    BY <2>1, <2>2, <2>5, <2>6, <2>7, <2>8, <2>9, <2>10 DEF Disk
<1>3. Snapshot /\ Sending
  BY DEF Snapshot, Sending
<1>4. KeptCopy
  BY DEF KeptCopy, Etags, Inodes, AnyTag
<1>5. Validated /\ NotModifiedMeansSame /\ WholeAnswer
  BY DEF Validated, NotModifiedMeansSame, WholeAnswer
<1> QED
  BY <1>1, <1>2, <1>3, <1>4, <1>5 DEF FileInv

(* The headers of a request for Doc: if one of them makes the file count   *)
(* as not modified, then the client's copy is of the file's version.       *)
LEMMA ValidatorsAreOfTheCopy ==
    ASSUME Disk, KeptCopy, doc # 0, ~backdated,
           NEW h \in HeaderSets, h.inm # <<AnyTag>>,
           Matches(h, inodes[doc])
    PROVE  copy.body = Whole(inodes[doc])
<1> DEFINE s == inodes[doc]
<1>1. h.ims \in Dates /\ h.inm \in TagLists
  <2>1. NoDate \in Dates /\ NoTags \in TagLists /\ <<AnyTag>> \in TagLists
    BY DEF Dates, TagLists
  <2>2. CASE \E t \in TagLists : h = [NoHeaders EXCEPT !.im = t, !.inm = t]
    BY <2>1, <2>2 DEF NoHeaders
  <2>3. CASE ~\E t \in TagLists : h = [NoHeaders EXCEPT !.im = t, !.inm = t]
    BY <2>1, <2>3 DEF HeaderSets
  <2> QED
    BY <2>2, <2>3
<1>2. /\ doc \in Inodes /\ s.ver = edits + 1 /\ s.mtime = s.ver /\ s.ino = doc
      /\ edits \in Nat
  BY DEF Disk, Inodes
<1>3. CASE h.ims # NoDate /\ h.ims >= s.mtime
  <2>1. copy.etag # AnyTag /\ h.ims = copy.mtime
    BY <1>1, <1>2, <1>3 DEF Dates
  <2>2. copy.mtime <= edits + 1 /\ copy.mtime \in Nat
    BY <2>1 DEF KeptCopy, Inodes
  <2>3. copy.mtime = s.ver
    BY <1>2, <1>3, <2>1, <2>2
  <2> QED
    BY <2>1, <2>3 DEF KeptCopy
<1>4. CASE h.inm # NoTags /\ Lists(h.inm, Etag(s))
  <2>1. Len(h.inm) = 1 /\ h.inm[1] \in {AnyTag, Etag(s)}
    BY <1>4 DEF Lists
  <2>2. h.inm # <<Foreign>>
    BY <1>2, <2>1 DEF Foreign, AnyTag, Etag
  <2>3. h.inm # <<Foreign, copy.etag>>
    BY <2>1
  <2>4. copy.etag # AnyTag /\ h.inm = <<copy.etag>>
    BY <1>1, <1>4, <2>2, <2>3 DEF TagLists
  <2>5. copy.etag = Etag(s)
    BY <2>1, <2>4
  <2>6. copy.mtime = s.ver
    BY <1>2, <2>4, <2>5 DEF KeptCopy, Etag
  <2> QED
    BY <2>4, <2>6 DEF KeptCopy
<1> QED
  BY <1>3, <1>4 DEF Matches

(* A request comes: what is known of the file is what it was right then.   *)
LEMMA FileComesInv == FileInv /\ FileComes => FileInv'
<1> SUFFICES ASSUME FileInv, FileComes PROVE FileInv'
  OBVIOUS
<1>1. PICK url \in Urls \cup {DocUrl}, method \in {"GET", "HEAD", "POST"},
           h \in HeaderSets \cup {NoHeaders} :
        /\ FileRequested(url, method, h)
        /\ h = NoHeaders \/ (url = DocUrl /\ h \in HeaderSets)
        /\ files < MaxFiles
  BY DEF FileComes
<1> DEFINE l == Lookup(url)
           f == [NoFile EXCEPT !.url = url, !.method = method, !.headers = h,
                               !.phys = l.phys, !.s = StatOf(l.phys)]
<1>2. /\ UNCHANGED <<inodes, doc, backdated, edits, copy>>
      /\ files' = files + 1
      /\ file' = CASE l.found = "none" -> Answered(f, 404)
                   [] l.found = "redirect" -> Answered(f, 302)
                   [] OTHER -> [f EXCEPT !.pc = "found"]
  BY <1>1 DEF FileRequested, diskvars
<1>3. /\ Fields /\ Disk /\ Snapshot /\ Sending /\ KeptCopy /\ Validated
      /\ NotModifiedMeansSame /\ WholeAnswer /\ files \in 0..MaxFiles
  BY DEF FileInv
<1>4. l.found # "none" /\ l.phys = Doc => doc # 0
  BY LookupOfDoc
<1>5. url = DocUrl /\ l.found # "none" => doc # 0 /\ l.phys = Doc
  BY LookupOfDoc
<1>6. /\ file'.pc \in {"idle", "found"}
      /\ file'.pc = "found" => l.found # "none" /\ file'.body = <<>>
      /\ file'.pc = "idle" => file'.status \in {302, 404}
      /\ file'.headers = h /\ file'.phys = l.phys /\ file'.s = StatOf(l.phys)
      /\ file'.open = FALSE
  BY <1>2 DEF Answered, NoFile
<1>7. Fields'
  <2>1. StatOf(l.phys) \in Stats
    BY <1>3, StatFacts
  <2>2. 0 \in Inodes /\ 0 \in 0..MaxReadErrors /\ <<>> \in Seq(Inodes)
    BY DEF Inodes
  <2> DEFINE R == Requests(url, h, l.phys)
  <2>3. NoFile \in Requests(<<>>, NoHeaders, <<>>)
    BY NoFileType
  <2> DEFINE f1 == [NoFile EXCEPT !.url = url]
             f2 == [f1 EXCEPT !.method = method]
             f3 == [f2 EXCEPT !.headers = h]
             f4 == [f3 EXCEPT !.phys = l.phys]
  <2>9. f \in R
    <3>1. f1 \in Requests(url, NoHeaders, <<>>)
      BY <2>3 DEF Requests
    <3> HIDE DEF f1
    <3>2. f2 \in Requests(url, NoHeaders, <<>>)
      BY <3>1 DEF Requests
    <3> HIDE DEF f2
    <3>3. f3 \in Requests(url, h, <<>>)
      BY <3>2 DEF Requests
    <3> HIDE DEF f3
    <3>4. f4 \in R
      BY <3>3 DEF Requests
    <3> HIDE DEF f4
    <3>5. [f4 EXCEPT !.s = StatOf(l.phys)] \in R
      BY <2>1, <3>4 DEF Requests
    <3> QED
      BY <3>5 DEF f1, f2, f3, f4
  <2> HIDE DEF f, l
  <2>4. Answered(f, 404) \in R /\ Answered(f, 302) \in R
    BY <2>9, AnsweredType DEF Statuses
  <2>5. [f EXCEPT !.pc = "found"] \in R
    BY <2>9 DEF Requests
  <2>6. file' \in R
    BY <1>2, <2>4, <2>5
  <2>7. file'.open = FALSE /\ file'.pc # "send"
    BY <1>6
  <2>8. file' \in Requests(file'.url, file'.headers, file'.phys)
    BY <2>6 DEF Requests
  <2> QED
    BY <2>7, <2>8 DEF Fields
<1>8. Disk' /\ KeptCopy'
  BY <1>2, <1>3 DEF Disk, KeptCopy
<1>9. Snapshot'
  <2>1. doc \in Inodes /\ edits \in Nat
    BY <1>3 DEF Disk, Inodes
  <2> QED
    BY <1>2, <1>3, <1>4, <1>6, <2>1, StatFacts DEF Snapshot
<1>10. Sending'
  BY <1>6 DEF Sending
<1>11. Validated'
  <2> SUFFICES ASSUME file'.pc = "found", ~backdated, h.inm # <<AnyTag>>,
                      Matches(h, StatOf(l.phys))
               PROVE  copy.body = Whole(StatOf(l.phys))
    BY <1>2, <1>6 DEF Validated
  <2>1. h # NoHeaders
    BY DEF Matches, NoHeaders
  <2>2. h \in HeaderSets /\ doc # 0 /\ l.phys = Doc
    BY <1>1, <1>5, <1>6, <2>1
  <2>3. StatOf(l.phys) = inodes[doc]
    BY <1>3, <2>2, StatFacts
  <2> QED
    BY <1>3, <2>2, <2>3, ValidatorsAreOfTheCopy
<1>12. NotModifiedMeansSame' /\ WholeAnswer'
  BY <1>6 DEF NotModifiedMeansSame, WholeAnswer
<1> QED
  BY <1>1, <1>2, <1>3, <1>7, <1>8, <1>9, <1>10, <1>11, <1>12 DEF FileInv

(* The file is opened: the answer is a code, or the first turn of the      *)
(* loop, with an empty body, on the inode that Doc names now.              *)
LEMMA OpenFileInv == FileInv /\ OpenFile => FileInv'
<1> SUFFICES ASSUME FileInv, OpenFile PROVE FileInv'
  OBVIOUS
<1> DEFINE code == Precondition(file.headers, file.method, file.s)
           g == [file EXCEPT !.pc = "send", !.status = 200, !.open = TRUE,
                             !.fd = IF file.phys = Doc THEN doc ELSE 0]
           R == Requests(file.url, file.headers, file.phys)
<1>1. /\ Fields /\ Disk /\ Snapshot /\ Sending /\ KeptCopy /\ Validated
      /\ NotModifiedMeansSame /\ WholeAnswer /\ files \in 0..MaxFiles
  BY DEF FileInv
<1>2. /\ file.pc = "found"
      /\ UNCHANGED <<inodes, doc, backdated, edits, copy, files>>
      /\ \/ file' = Answered(file, 403)
         \/ file' = Answered(file, code) /\ code # 200
         \/ file' = Answered(file, 200) /\ file.method = "HEAD"
         \/ file' = g
  BY DEF OpenFile, diskvars
<1>3. code \in {200, 304, 412} /\ (code = 304 => Matches(file.headers, file.s))
  BY PreconditionCodes
<1>4. file \in R /\ file.body = <<>> /\ doc \in Inodes /\ 0 \in Inodes
  BY <1>1, <1>2 DEF Fields, Sending, Disk, Inodes
<1> HIDE DEF code
<1>5. Disk' /\ KeptCopy'
  BY <1>1, <1>2 DEF Disk, KeptCopy
<1>6. ASSUME NEW c \in Statuses, file' = Answered(file, c),
             c = 304 => code = 304, c = 200 => file.method = "HEAD"
      PROVE  FileInv'
  <2>1. /\ file'.pc = "idle" /\ file'.status = c /\ file'.open = FALSE
        /\ file'.url = file.url /\ file'.headers = file.headers
        /\ file'.phys = file.phys /\ file'.s = file.s /\ file'.method = file.method
    BY <1>4, <1>6 DEF Answered, Requests
  <2>2. file' \in R
    BY <1>4, <1>6, AnsweredType
  <2>3. Fields'
    BY <2>1, <2>2 DEF Fields
  <2>4. Snapshot' /\ Sending' /\ Validated'
    BY <1>1, <1>2, <2>1 DEF Snapshot, Sending, Validated
  <2>5. WholeAnswer'
    BY <1>6, <2>1 DEF WholeAnswer
  <2>6. NotModifiedMeansSame'
    BY <1>1, <1>2, <1>3, <1>6, <2>1 DEF NotModifiedMeansSame, Validated, Whole
  <2> QED
    BY <1>1, <1>2, <1>5, <2>3, <2>4, <2>5, <2>6 DEF FileInv
<1>7. ASSUME file' = g PROVE FileInv'
  <2>1. /\ file'.pc = "send" /\ file'.status = 200
        /\ file'.fd = IF file.phys = Doc THEN doc ELSE 0
        /\ file'.url = file.url /\ file'.headers = file.headers
        /\ file'.phys = file.phys /\ file'.s = file.s /\ file'.body = <<>>
    BY <1>4, <1>7 DEF Requests
  <2>2. file'.open = TRUE
    BY <1>4, <1>7 DEF Requests
  <2>3. g \in R
    <3> SUFFICES ASSUME NEW b, b \in BOOLEAN, NEW fd \in Inodes
                 PROVE  [file EXCEPT !.pc = "send", !.status = 200, !.open = b,
                                     !.fd = fd] \in R
      BY <1>4
    <3>1. \A r \in R : [r EXCEPT !.pc = "send"] \in R
      BY DEF Requests
    <3>2. \A r \in R : [r EXCEPT !.status = 200] \in R
      BY DEF Requests, Statuses
    <3>3. \A r \in R : [r EXCEPT !.open = b] \in R
      BY DEF Requests
    <3>4. \A r \in R : [r EXCEPT !.fd = fd] \in R
      BY DEF Requests
    <3> HIDE DEF R
    <3> QED
      BY <1>4, <3>1, <3>2, <3>3, <3>4
  <2>4. Fields'
    BY <1>7, <2>1, <2>2, <2>3 DEF Fields
  <2>5. Snapshot'
    BY <1>1, <1>2, <2>1 DEF Snapshot
  <2>6. Sending'
    <3>1. file.s.size \in Nat
      BY <1>4 DEF Requests, Stats
    <3>2. Len(file'.body) = 0 /\ \A i \in 1..Len(file'.body) : FALSE
      BY <2>1
    <3> QED
      BY <1>2, <2>1, <3>1, <3>2 DEF Sending
  <2>7. Validated' /\ NotModifiedMeansSame' /\ WholeAnswer'
    BY <2>1 DEF Validated, NotModifiedMeansSame, WholeAnswer
  <2> QED
    BY <1>1, <1>2, <1>5, <2>4, <2>5, <2>6, <2>7 DEF FileInv
<1> QED
  BY <1>2, <1>3, <1>6, <1>7 DEF Statuses

(* While the file is sent, an inode that still has the version announced   *)
(* has its size too.                                                       *)
LEMMA SizeIsKept ==
    ASSUME Fields, Disk, Snapshot, Sending, file.pc = "send",
           inodes[file.fd].ver = file.s.ver
    PROVE  inodes[file.fd].size = file.s.size
<1>1. file.fd \in Inodes
  BY DEF Fields, Requests
<1>2. CASE file.phys = Doc
  BY <1>1, <1>2 DEF Snapshot
<1>3. CASE file.phys # Doc
  BY <1>3 DEF Snapshot, Sending, Disk
<1> QED
  BY <1>2, <1>3

(* One block more: if the inode has the version announced, the block has.  *)
LEMMA ReadBlockInv == FileInv /\ ReadBlock => FileInv'
<1> SUFFICES ASSUME FileInv, ReadBlock PROVE FileInv'
  OBVIOUS
<1>1. /\ Fields /\ Disk /\ Snapshot /\ Sending /\ KeptCopy /\ Validated
      /\ NotModifiedMeansSame /\ WholeAnswer /\ files \in 0..MaxFiles
  BY DEF FileInv
<1>2. /\ file.pc = "send" /\ Len(file.body) < inodes[file.fd].size
      /\ UNCHANGED <<inodes, doc, backdated, edits, copy, files>>
      /\ file' = [file EXCEPT !.body = Append(@, inodes[file.fd].ver)]
  BY DEF ReadBlock, diskvars
<1> DEFINE R == Requests(file.url, file.headers, file.phys)
           block == inodes[file.fd].ver
<1>3. file \in R
  BY <1>1 DEF Fields
<1>4. /\ file.fd \in Inodes /\ file.body \in Seq(Inodes) /\ file.s.size \in Nat
      /\ block \in Inodes /\ inodes[file.fd].size \in Nat
  <2>1. file.fd \in Inodes /\ file.body \in Seq(Inodes) /\ file.s.size \in Nat
    BY <1>3 DEF Requests, Stats
  <2>2. inodes[file.fd] \in Stats
    BY <1>1, <2>1 DEF Disk
  <2> QED
    BY <2>1, <2>2 DEF Stats
<1>5. /\ file'.pc = "send" /\ file'.open = file.open /\ file'.url = file.url
      /\ file'.headers = file.headers /\ file'.phys = file.phys
      /\ file'.s = file.s /\ file'.fd = file.fd /\ file'.body = Append(file.body, block)
  BY <1>2, <1>3 DEF Requests
<1>6. Fields'
  <2>1. Append(file.body, block) \in Seq(Inodes)
    BY <1>4
  <2>2. \A body \in Seq(Inodes) : [file EXCEPT !.body = body] \in R
    BY <1>3 DEF Requests
  <2>3. file' \in R
    BY <1>2, <2>1, <2>2
  <2> QED
    BY <1>1, <1>2, <1>5, <2>3 DEF Fields
<1>7. Disk' /\ KeptCopy' /\ Snapshot'
  BY <1>1, <1>2, <1>5 DEF Disk, KeptCopy, Snapshot
<1>8. Sending'
  <2> SUFFICES ASSUME block = file.s.ver
               PROVE  /\ Len(Append(file.body, block)) <= file.s.size
                      /\ \A i \in 1..Len(Append(file.body, block)) :
                           Append(file.body, block)[i] = file.s.ver
    BY <1>1, <1>2, <1>5 DEF Sending
  <2>1. inodes[file.fd].size = file.s.size
    BY <1>1, <1>2, SizeIsKept
  <2>2. /\ Len(Append(file.body, block)) = Len(file.body) + 1
        /\ \A i \in 1..Len(file.body) : Append(file.body, block)[i] = file.body[i]
        /\ Append(file.body, block)[Len(file.body) + 1] = block
        /\ Len(file.body) \in Nat
    BY <1>4
  <2> QED
    BY <1>1, <1>2, <1>4, <2>1, <2>2 DEF Sending
<1>9. Validated' /\ NotModifiedMeansSame' /\ WholeAnswer'
  BY <1>5 DEF Validated, NotModifiedMeansSame, WholeAnswer
<1> QED
  BY <1>1, <1>2, <1>6, <1>7, <1>8, <1>9 DEF FileInv

(* The end of the file: the body is whole if the inode has the version     *)
(* announced, and only such a copy can be of what Doc is now.              *)
LEMMA ReadEndInv == FileInv /\ ReadEnd => FileInv'
<1> SUFFICES ASSUME FileInv, ReadEnd PROVE FileInv'
  OBVIOUS
<1>1. /\ Fields /\ Disk /\ Snapshot /\ Sending /\ KeptCopy /\ Validated
      /\ NotModifiedMeansSame /\ WholeAnswer /\ files \in 0..MaxFiles
  BY DEF FileInv
<1>2. /\ file.pc = "send" /\ Len(file.body) >= inodes[file.fd].size
      /\ UNCHANGED <<inodes, doc, backdated, edits, files>>
      /\ file' = Answered(file, 200)
      /\ copy' = Kept(file)
  BY DEF ReadEnd, diskvars
<1> DEFINE R == Requests(file.url, file.headers, file.phys)
<1>3. file \in R
  BY <1>1 DEF Fields
<1>4. /\ file.fd \in Inodes /\ file.body \in Seq(Inodes) /\ file.s \in Stats
      /\ doc \in Inodes
  BY <1>1, <1>3 DEF Requests, Disk, Inodes
<1>5. /\ file'.pc = "idle" /\ file'.open = FALSE /\ file'.url = file.url
      /\ file'.headers = file.headers /\ file'.phys = file.phys
      /\ file'.s = file.s /\ file'.fd = file.fd /\ file'.body = file.body
      /\ file'.status = 200
  BY <1>2, <1>3 DEF Answered, Requests
<1>6. Fields'
  <2>1. file' \in R
    BY <1>2, <1>3, AnsweredType DEF Statuses
  <2> QED
    BY <1>5, <2>1 DEF Fields
<1>7. Disk' /\ Snapshot' /\ Sending' /\ Validated' /\ NotModifiedMeansSame'
  BY <1>1, <1>2, <1>5
     DEF Disk, Snapshot, Sending, Validated, NotModifiedMeansSame
<1>8. inodes[file.fd].ver = file.s.ver => file.body = Whole(file.s)
  <2> SUFFICES ASSUME inodes[file.fd].ver = file.s.ver
               PROVE  file.body = Whole(file.s)
    OBVIOUS
  <2>1. inodes[file.fd].size = file.s.size
    BY <1>1, <1>2, SizeIsKept
  <2>2. file.s.size \in Nat /\ Len(file.body) \in Nat
    BY <1>4 DEF Stats
  <2>3. Len(file.body) = file.s.size
    BY <1>1, <1>2, <2>1, <2>2 DEF Sending
  <2>4. \A i \in 1..file.s.size : file.body[i] = file.s.ver
    BY <1>1, <1>2, <2>3 DEF Sending
  <2>5. file.body = [i \in 1..Len(file.body) |-> file.body[i]]
    BY <1>4
  <2> QED
    BY <2>3, <2>4, <2>5 DEF Whole
<1>9. WholeAnswer'
  <2> SUFFICES ASSUME inodes'[file'.fd].ver = file'.s.ver
               PROVE  file'.body = Whole(file'.s)
    BY DEF WholeAnswer, Whole
  <2>1. inodes[file.fd].ver = file.s.ver
    BY <1>2, <1>5
  <2> QED
    BY <1>5, <1>8, <2>1
<1>10. KeptCopy'
  <2>1. CASE copy' = copy
    BY <1>1, <1>2, <2>1 DEF KeptCopy
  <2>2. CASE copy' # copy
    <3>1. /\ file.phys = Doc
          /\ copy' = [etag |-> Etag(file.s), mtime |-> file.s.mtime,
                      size |-> file.s.size, body |-> file.body]
      BY <1>2, <2>2 DEF Kept
    <3>2. /\ copy'.etag = <<file.s.ino, file.s.size, file.s.mtime>>
          /\ copy'.mtime = file.s.mtime /\ copy'.body = file.body
      BY <3>1 DEF Etag
    <3>3. /\ file.s.ino \in Inodes /\ file.s.mtime \in Inodes
          /\ file.s.size \in 0..MaxSize /\ copy'.etag[3] = copy'.mtime
      <4>1. /\ file.s.ino \in Inodes /\ file.s.mtime \in Inodes
            /\ file.s.size \in 0..(MaxSize + 1)
        BY <1>4 DEF Stats
      <4>2. file.s.size <= MaxSize
        BY <1>1, <1>2, <3>1 DEF Snapshot
      <4>3. copy'.etag[3] = copy'.mtime
        BY <3>2
      <4> QED
        BY <4>1, <4>2, <4>3
    <3>4. copy'.etag \in Etags
      BY <3>2, <3>3 DEF Etags
    <3>5. ~backdated => copy'.mtime <= edits + 1 /\ copy'.mtime = file.s.ver
      BY <1>1, <3>2 DEF Snapshot
    <3>6. ASSUME doc # 0, inodes[doc].ver = file.s.ver
          PROVE  file.body = Whole(inodes[doc])
      <4>1. inodes[doc].ver = edits + 1
        BY <1>1, <3>6 DEF Disk
      <4>2. file.fd = doc
        BY <1>1, <1>2, <3>1, <3>6, <4>1 DEF Sending
      <4>3. inodes[doc] = file.s
        BY <1>1, <1>2, <1>4, <3>1, <3>6 DEF Snapshot
      <4> QED
        BY <1>8, <4>2, <4>3
    <3> QED
      BY <1>2, <1>4, <3>2, <3>3, <3>4, <3>5, <3>6 DEF KeptCopy
  <2> QED
    BY <2>1, <2>2
<1> QED
  BY <1>1, <1>2, <1>6, <1>7, <1>9, <1>10 DEF FileInv

(* A failed read leaves the body as it is.                                 *)
LEMMA ReadErrorInv == FileInv /\ ReadError => FileInv'
<1> SUFFICES ASSUME FileInv, ReadError PROVE FileInv'
  OBVIOUS
<1>1. /\ Fields /\ Disk /\ Snapshot /\ Sending /\ KeptCopy /\ Validated
      /\ NotModifiedMeansSame /\ WholeAnswer /\ files \in 0..MaxFiles
  BY DEF FileInv
<1>2. /\ file.pc = "send" /\ file.errors < MaxReadErrors
      /\ UNCHANGED <<inodes, doc, backdated, edits, copy, files>>
      /\ file' = [file EXCEPT !.broken = TRUE, !.errors = @ + 1]
  BY DEF ReadError, diskvars
<1> DEFINE R == Requests(file.url, file.headers, file.phys)
<1>3. file \in R
  BY <1>1 DEF Fields
<1>4. /\ file'.pc = "send" /\ file'.open = file.open /\ file'.url = file.url
      /\ file'.headers = file.headers /\ file'.phys = file.phys
      /\ file'.s = file.s /\ file'.fd = file.fd /\ file'.body = file.body
  BY <1>2, <1>3 DEF Requests
<1>5. file' \in R
  <2>1. file.errors + 1 \in 0..MaxReadErrors
    BY <1>2, <1>3 DEF Requests
  <2>2. ASSUME NEW b, b \in BOOLEAN
        PROVE  \A r \in R : [r EXCEPT !.broken = b] \in R
    BY <2>2 DEF Requests
  <2>3. \A r \in R, n \in 0..MaxReadErrors : [r EXCEPT !.errors = n] \in R
    BY DEF Requests
  <2> HIDE DEF R
  <2>4. [[file EXCEPT !.broken = TRUE] EXCEPT !.errors = file.errors + 1] \in R
    BY <1>3, <2>1, <2>2, <2>3
  <2> QED
    BY <1>2, <2>4
<1>6. Fields'
  BY <1>1, <1>2, <1>4, <1>5 DEF Fields
<1>7. Disk' /\ KeptCopy' /\ Snapshot' /\ Sending'
  BY <1>1, <1>2, <1>4 DEF Disk, KeptCopy, Snapshot, Sending
<1>8. Validated' /\ NotModifiedMeansSame' /\ WholeAnswer'
  BY <1>4 DEF Validated, NotModifiedMeansSame, WholeAnswer
<1> QED
  BY <1>1, <1>2, <1>6, <1>7, <1>8 DEF FileInv

(* An edit makes a version that is newer than all there were, so nothing   *)
(* that was read, kept or announced before is taken for it.                *)
LEMMA EditInv ==
    ASSUME FileInv, NEW ino, NEW size \in 0..MaxSize, NEW mtime \in Backdates \cup {edits + 2},
           Edit(ino, size, mtime),
           (ino = doc /\ doc # 0) \/ ino = edits + 2
    PROVE  FileInv'
<1>1. /\ Fields /\ Disk /\ Snapshot /\ Sending /\ KeptCopy /\ Validated
      /\ NotModifiedMeansSame /\ WholeAnswer /\ files \in 0..MaxFiles
  BY DEF FileInv
<1> DEFINE new == [ino |-> ino, ver |-> edits + 2, size |-> size, mtime |-> mtime]
<1>2. /\ edits < MaxEdits /\ edits' = edits + 1 /\ doc' = ino
      /\ inodes' = [inodes EXCEPT ![ino] = new]
      /\ backdated' = (backdated \/ mtime # edits + 2)
      /\ UNCHANGED <<file, copy, files>>
  BY DEF Edit
<1>3. /\ ino \in Inodes /\ ino # 0 /\ ino <= edits + 2
      /\ edits \in Nat /\ edits + 2 \in Inodes /\ doc \in Inodes
  BY <1>1, <1>2 DEF Disk, Inodes
<1>4. new \in Stats
  <2>1. mtime \in Inodes
    BY <1>3, FileBounds DEF Inodes
  <2> QED
    BY <1>3, <2>1 DEF Stats
<1>5. inodes'[ino] = new /\ \A i \in Inodes : i # ino => inodes'[i] = inodes[i]
  BY <1>1, <1>2, <1>3 DEF Disk
<1>6. ~backdated' => ~backdated /\ new.mtime = new.ver
  BY <1>2
<1>7. \A i \in Inodes : inodes[i].ver <= edits + 1 /\ inodes[i].ver \in Nat
  BY <1>1 DEF Disk, Stats, Inodes
<1> HIDE DEF new
<1>8. new.ver = edits + 2 /\ new.ino = ino /\ new.size = size
  BY DEF new
<1>9. Disk'
  <2>1. inodes' \in [Inodes -> Stats] /\ inodes'[0] = [NoStat EXCEPT !.size = 1]
    BY <1>1, <1>2, <1>3, <1>4, <1>5 DEF Disk, Inodes
  <2>2. edits' \in 0..MaxEdits /\ doc' \in 0..edits' + 1 /\ backdated' \in BOOLEAN
    BY <1>2, <1>3 DEF Inodes
  <2>3. ASSUME NEW i \in Inodes
        PROVE  /\ inodes'[i].ver <= edits' + 1
               /\ i # 0 => inodes'[i].size <= MaxSize
               /\ ~backdated' => inodes'[i].mtime = inodes'[i].ver
    BY <1>1, <1>2, <1>3, <1>5, <1>6, <1>7, <1>8 DEF Disk
  <2>4. inodes'[doc'].ver = edits' + 1 /\ inodes'[doc'].ino = doc'
    BY <1>2, <1>3, <1>5, <1>8
  <2>5. ASSUME NEW i \in Inodes, NEW j \in Inodes,
               inodes'[i].ver = inodes'[j].ver, inodes'[i].ver # 0
        PROVE  i = j
    BY <1>1, <1>3, <1>5, <1>7, <1>8, <2>5 DEF Disk
  <2> QED
    BY <2>1, <2>2, <2>3, <2>4, <2>5 DEF Disk
<1>10. file.s \in Stats /\ file.fd \in Inodes
  BY <1>1 DEF Fields, Requests
<1>11. \A i \in Inodes : inodes'[i].ver = file.s.ver => i # ino
  BY <1>1, <1>3, <1>5, <1>8, <1>10 DEF Snapshot, Stats, Inodes
<1>12. Fields'
  BY <1>1, <1>2 DEF Fields
<1>13. Snapshot'
  <2>1. file.s.ver \in Nat
    BY <1>10 DEF Stats, Inodes
  <2> QED
    BY <1>1, <1>2, <1>3, <1>5, <1>6, <1>11, <2>1 DEF Snapshot
<1>14. Sending'
  <2>1. file.s.ver # edits' + 1
    BY <1>1, <1>2, <1>3, <1>10 DEF Snapshot, Stats, Inodes
  <2>2. inodes'[file.fd].ver = file.s.ver => inodes[file.fd].ver = file.s.ver
    BY <1>5, <1>10, <1>11
  <2> QED
    BY <1>1, <1>2, <2>1, <2>2 DEF Sending
<1>15. KeptCopy'
  <2>1. copy.etag # AnyTag /\ ~backdated => copy.mtime # new.ver /\ copy.mtime <= edits' + 1
    BY <1>1, <1>2, <1>3, <1>8 DEF KeptCopy, Inodes
  <2> QED
    BY <1>1, <1>2, <1>3, <1>5, <1>6, <2>1 DEF KeptCopy
<1>16. Validated' /\ NotModifiedMeansSame'
  BY <1>1, <1>2, <1>6 DEF Validated, NotModifiedMeansSame
<1>17. WholeAnswer'
  BY <1>1, <1>2, <1>5, <1>10, <1>11 DEF WholeAnswer
<1> QED
  BY <1>1, <1>2, <1>9, <1>12, <1>13, <1>14, <1>15, <1>16, <1>17 DEF FileInv

(* So does a removal, of which only the name and the number are gone.      *)
LEMMA RemoveInv ==
    ASSUME FileInv, doc # 0, edits < MaxEdits, edits' = edits + 1, doc' = 0,
           UNCHANGED <<inodes, backdated, file, copy, files>>
    PROVE  FileInv'
<1>1. /\ Fields /\ Disk /\ Snapshot /\ Sending /\ KeptCopy /\ Validated
      /\ NotModifiedMeansSame /\ WholeAnswer /\ files \in 0..MaxFiles
  BY DEF FileInv
<1>2. edits \in Nat /\ file.s.ver \in Nat /\ copy.mtime \in Nat
  BY <1>1 DEF Disk, Fields, Requests, Stats, Inodes, KeptCopy
<1>3. Disk'
  <2>1. \A i \in Inodes : inodes[i].ver <= edits' + 1
    BY <1>1, <1>2 DEF Disk, Stats, Inodes
  <2> QED
    BY <1>1, <1>2, <2>1 DEF Disk
<1>4. Fields' /\ Validated' /\ NotModifiedMeansSame' /\ WholeAnswer'
  BY <1>1 DEF Fields, Validated, NotModifiedMeansSame, WholeAnswer
<1>5. Snapshot' /\ Sending' /\ KeptCopy'
  BY <1>1, <1>2 DEF Snapshot, Sending, KeptCopy
<1> QED
  BY <1>1, <1>3, <1>4, <1>5 DEF FileInv

(* Every step of a request and every edit preserve the invariant.        *)
LEMMA FileNextInv == FileInv /\ [FileNext]_filevars => FileInv'
<1> SUFFICES ASSUME FileInv, [FileNext]_filevars PROVE FileInv'
  OBVIOUS
<1>1. CASE FileComes
  BY <1>1, FileComesInv
<1>2. CASE OpenFile
  BY <1>2, OpenFileInv
<1>3. CASE SendFile
  BY <1>3, ReadBlockInv, ReadEndInv, ReadErrorInv DEF SendFile
<1>4. CASE EditDoc
  <2>1. ASSUME NEW size \in 0..MaxSize, NEW mtime \in Backdates \cup {edits + 2}, doc # 0,
               Edit(doc, size, mtime)
        PROVE  FileInv'
    BY <2>1, EditInv
  <2>2. ASSUME NEW size \in 0..MaxSize, NEW mtime \in Backdates \cup {edits + 2},
               Edit(edits + 2, size, mtime)
        PROVE  FileInv'
    BY <2>2, EditInv
  <2>3. CASE doc # 0 /\ edits < MaxEdits /\ edits' = edits + 1 /\ doc' = 0
             /\ UNCHANGED <<inodes, backdated, file, copy, files>>
    BY <2>3, RemoveInv
  <2> QED
    BY <1>4, <2>1, <2>2, <2>3 DEF EditDoc
<1>5. CASE UNCHANGED filevars
  BY <1>5 DEF filevars, diskvars, FileInv, Fields, Disk, Snapshot, Sending,
              KeptCopy, Validated, NotModifiedMeansSame, WholeAnswer
<1> QED
  BY <1>1, <1>2, <1>3, <1>4, <1>5 DEF FileNext, FileStep

(* The invariant of the file requests.                                   *)
LEMMA FileInvariant == FileSpec => []FileInv
<1> QED
  BY FileInitInv, FileNextInv, PTL DEF FileSpec

(* Every variable has its type: among others a request is answered with    *)
(* one of six codes, and the descriptor is open exactly while the file is  *)
(* sent (file.c:465-587).                                                  *)
THEOREM FileTypeCorrect == FileSpec => []FileTypeOK
<1>1. FileInv => FileTypeOK
  <2> SUFFICES ASSUME FileInv PROVE FileTypeOK
    OBVIOUS
  <2>1. doc \in Inodes
    BY DEF FileInv, Disk, Inodes
  <2> QED
    BY <2>1 DEF FileInv, FileTypeOK, Fields, Requests, Statuses, Disk, KeptCopy
<1> QED
  BY <1>1, FileInvariant, PTL

(* As long as every edit leaves the file a later mtime than any before, a  *)
(* 304 means that the client's copy is the file, whatever other headers    *)
(* than the tag "*" are sent and whenever the edits fall: no copy mixed of *)
(* two versions has a validator that the file matches (file.c:229-343).    *)
THEOREM NotModifiedIsTrue == FileSpec => []NotModifiedMeansSame
<1> QED
  BY FileInvariant, PTL DEF FileInv

(* A file that is not edited while it is sent arrives whole (file.c:437).  *)
THEOREM AnswersAreWhole == FileSpec => []WholeAnswer
<1> QED
  BY FileInvariant, PTL DEF FileInv

(* A request remembers a file that its URL names.                          *)
FoundIsNamed ==
  /\ file.pc = "found" /\ Tree[file.phys] = "reg" => IsNamed(file.url, file.phys)
  /\ file.pc = "send" => file.status = 200

(* No step takes a request to another file.                                *)
LEMMA NamedStep ==
    ASSUME FileInv, FoundIsNamed, ServesNamedFile,
           [FileNext]_filevars
    PROVE  FoundIsNamed' /\ ServesNamedFile'
<1> USE DEF FoundIsNamed, ServesNamedFile
<1>1. file \in Requests(file.url, file.headers, file.phys)
  BY DEF FileInv, Fields
<1>2. ASSUME NEW url \in Urls \cup {DocUrl}, NEW method, NEW h,
             FileRequested(url, method, h)
      PROVE  FoundIsNamed' /\ ServesNamedFile'
  <2> DEFINE l == Lookup(url)
             f == [NoFile EXCEPT !.url = url, !.method = method, !.headers = h,
                                 !.phys = l.phys, !.s = StatOf(l.phys)]
  <2>1. file' = CASE l.found = "none" -> Answered(f, 404)
                  [] l.found = "redirect" -> Answered(f, 302)
                  [] OTHER -> [f EXCEPT !.pc = "found"]
    BY <1>2 DEF FileRequested
  <2>2. /\ file'.url = url /\ file'.phys = l.phys /\ file'.status \in {0, 302, 404}
        /\ file'.pc \in {"idle", "found"}
        /\ file'.pc = "found" => l.found \notin {"none", "redirect"}
    BY <2>1 DEF Answered, NoFile
  <2>3. l.found \notin {"none", "redirect"} /\ Tree[l.phys] = "reg" =>
          IsNamed(url, l.phys)
    <3> HIDE DEF l
    <3>1. PICK present \in BOOLEAN : l = LookupIn(url, present)
      BY LookupNow DEF l
    <3> QED
      BY <3>1, LookupIsNamed
  <2> QED
    BY <2>2, <2>3
<1>3. CASE FileComes
  BY <1>2, <1>3 DEF FileComes
<1>4. CASE OpenFile
  <2> DEFINE code == Precondition(file.headers, file.method, file.s)
             g == [file EXCEPT !.pc = "send", !.status = 200, !.open = TRUE,
                               !.fd = IF file.phys = Doc THEN doc ELSE 0]
  <2>1. /\ file.pc = "found"
        /\ \/ \E c \in {403, code} : c # 200 /\ file' = Answered(file, c)
           \/ /\ Tree[file.phys] = "reg"
              /\ file' = Answered(file, 200) \/ file' = g
    BY <1>4 DEF OpenFile, CanOpen
  <2>2. CASE \E c \in {403, code} : c # 200 /\ file' = Answered(file, c)
    <3>1. file'.pc = "idle" /\ file'.status # 200
      BY <1>1, <2>2 DEF Answered, Requests
    <3> QED
      BY <3>1
  <2>3. CASE Tree[file.phys] = "reg" /\ (file' = Answered(file, 200) \/ file' = g)
    <3>1. /\ g.pc = "send" /\ g.status = 200
          /\ g.url = file.url /\ g.phys = file.phys
      BY <1>1 DEF Requests
    <3>2. LET a == Answered(file, 200) IN
            a.pc = "idle" /\ a.status = 200 /\ a.url = file.url /\ a.phys = file.phys
      BY <1>1 DEF Answered, Requests
    <3> HIDE DEF g
    <3> QED
      BY <2>1, <2>3, <3>1, <3>2
  <2> QED
    BY <2>1, <2>2, <2>3
<1>5. CASE SendFile
  <2>1. /\ file.pc = "send"
        /\ \/ \E block : file' = [file EXCEPT !.body = Append(@, block)]
           \/ file' = Answered(file, 200)
           \/ file' = [file EXCEPT !.broken = TRUE, !.errors = @ + 1]
    BY <1>5 DEF SendFile, ReadBlock, ReadEnd, ReadError
  <2>2. CASE \E block : file' = [file EXCEPT !.body = Append(@, block)]
    BY <1>1, <2>1, <2>2 DEF Requests
  <2>3. CASE file' = Answered(file, 200)
    BY <1>1, <2>1, <2>3 DEF Answered, Requests
  <2>4. CASE file' = [file EXCEPT !.broken = TRUE, !.errors = @ + 1]
    BY <1>1, <2>1, <2>4 DEF Requests
  <2> QED
    BY <2>1, <2>2, <2>3, <2>4
<1>6. CASE UNCHANGED file
  BY <1>6
<1>7. EditDoc \/ UNCHANGED filevars => UNCHANGED file
  BY DEF EditDoc, Edit, filevars
<1> QED
  BY <1>3, <1>4, <1>5, <1>6, <1>7 DEF FileNext, FileStep

(* An answer 200 is the file that the URL names, and whole if it was not   *)
(* edited meanwhile (file.c:437).                                          *)
THEOREM AnswersAreNamed == FileSpec => []AnswerIsTheFile
<1>1. FileInit => FoundIsNamed /\ ServesNamedFile
  BY DEF FileInit, NoFile, FoundIsNamed, ServesNamedFile
<1>2. FileInv /\ FoundIsNamed /\ ServesNamedFile /\ [FileNext]_filevars
        => (FoundIsNamed /\ ServesNamedFile)'
  BY NamedStep
<1>3. FileInv /\ ServesNamedFile => AnswerIsTheFile
  BY DEF FileInv, AnswerIsTheFile
<1> QED
  BY <1>1, <1>2, <1>3, FileInvariant, PTL DEF FileSpec
=============================================================================
