----------------------------- MODULE FileRequest -----------------------------
(***************************************************************************)
(* Requests for files, src/file.c: from the URL to a path, the conditional *)
(* headers, and the loop that sends the file, while others edit it.        *)
(* A character is a string of length one and a path a sequence of them:    *)
(* canonpath works on characters, and so does the property about it.  One  *)
(* file, Doc, is edited while the server runs; all others stay as Tree has *)
(* them.  A client keeps a copy of Doc and asks for it again with the      *)
(* validators it was given.                                                *)
(***************************************************************************)
EXTENDS Integers, Sequences, FiniteSets, SequencesExt

CONSTANTS Chars,      \* the characters, and the escapes and signs of a URL
          Tree,       \* function: canonical path -> kind of the node
          Docroot,    \* conf->document_root
          IndexFile,  \* conf->index_file
          Doc,        \* the path of the file that is edited
          Escapes,    \* function: escape -> the character it stands for
          Urls,       \* URLs that are asked for
          DocUrl,     \* the one of Doc
          MaxFiles,   \* bound: requests
          MaxEdits,   \* bound: edits of Doc
          MaxSize,    \* bound: size of Doc, in reads
          MaxReadErrors, \* bound: reads that fail
          Backdates   \* bound: mtimes of edits that are not their own time

Kinds == {"dir", "reg", "secret", "socket", "fifo"}
(* "end" stands for the zero byte behind a string.                         *)
ASSUME CharAssumption == {"/", "."} \subseteq Chars /\ "end" \notin Chars
ASSUME PathAssumption ==
  /\ Docroot \in Seq(Chars) /\ Docroot # <<>> /\ Docroot[1] = "/"
  /\ IndexFile \in Seq(Chars)
  /\ Urls \cup {DocUrl} \subseteq Seq(Chars)
  /\ \A escape \in DOMAIN Escapes : Escapes[escape] \in Chars

ASSUME TreeAssumption == Tree \in [DOMAIN Tree -> Kinds]
ASSUME FileBounds == /\ MaxFiles \in Nat
                     /\ MaxEdits \in Nat
                     /\ MaxSize \in Nat
                     /\ MaxReadErrors \in Nat
                     /\ Backdates \subseteq 0..MaxEdits + 1

VARIABLES
  inodes,  \* the inodes Doc had and has: version of the content, size, mtime
  doc,     \* the inode Doc names now, 0 for none
  backdated,  \* history: an edit gave Doc an mtime that is not the latest yet
  edits,   \* number of edits
  file,    \* the request being served
  copy,    \* the client's copy of Doc: validators and blocks, by version
  files    \* number of requests

diskvars == <<inodes, doc, backdated, edits>>
filevars == <<diskvars, file, copy, files>>
-----------------------------------------------------------------------------
(* Paths.  In a URL an escape is one element, as is a per cent sign that   *)
(* begins none.                                                            *)

BeforeQuery(url) ==
  SubSeq(url, 1, Min({i \in DOMAIN url : url[i] = "?"} \cup {Len(url) + 1}) - 1)
Decodes(url) == \A i \in DOMAIN url : url[i] # "%"
Decoded(url) ==   \* once: an escape may stand for a slash or a dot, but not for an escape
  [i \in DOMAIN url |-> IF url[i] \in DOMAIN Escapes THEN Escapes[url[i]] ELSE url[i]]
Asked(url) == Docroot \o Decoded(BeforeQuery(url))

CharAt(path, i) == IF i \in DOMAIN path THEN path[i] ELSE "end"
SlashOrEnd == {"/", "end"}
LastSlash(out) == Max({i \in DOMAIN out : out[i] = "/"} \cup {1})
Parent(out) == SubSeq(out, 1, LastSlash(out) - 1)

IsDot(path, i) == CharAt(path, i + 1) = "." /\ CharAt(path, i + 2) \in SlashOrEnd
IsDotDot(path, i) == /\ CharAt(path, i + 1) = "."
                     /\ CharAt(path, i + 2) = "."
                     /\ CharAt(path, i + 3) \in SlashOrEnd

(* What the character at i makes of the output and the next position.      *)
CanonStep(path, i, was) ==
  CASE i < was.from -> was
    [] i >= was.from /\ path[i] = "/" /\ CharAt(path, i + 1) = "/" ->
         [from |-> i + 1, out |-> was.out]
    [] i >= was.from /\ path[i] = "/" /\ IsDot(path, i) ->
         [from |-> i + 2, out |-> was.out]
    [] i >= was.from /\ path[i] = "/" /\ IsDotDot(path, i) ->
         [from |-> i + 3, out |-> Parent(was.out)]
    [] OTHER -> [from |-> i + 1, out |-> Append(was.out, path[i])]

Canon(path) ==
  LET After[i \in 0..Len(path)] ==
        IF i = 0 THEN [from |-> 1, out |-> <<>>]
        ELSE CanonStep(path, i, After[i - 1])
      out == After[Len(path)].out
  IN  CASE out = <<>> -> <<"/">>
        [] Len(out) > 1 /\ Last(out) = "/" -> Front(out)
        [] OTHER -> out

(* What canonpath should return: the segments between the slashes, without *)
(* the empty and the single-dot ones, with each pair of dots taking back   *)
(* the segment before it.                                                  *)
Segment(path, i) ==   \* between the slash before i and i
  SubSeq(path, Max({j \in 1..i - 1 : path[j] = "/"} \cup {0}) + 1, i - 1)

WithSegment(segs, segment) ==
  CASE segment \in {<<>>, <<".">>} -> segs
    [] segment = <<".", ".">> -> IF segs = <<>> THEN segs ELSE Front(segs)
    [] OTHER -> Append(segs, segment)

Joined(segs) == FlattenSeq([k \in DOMAIN segs |-> <<"/">> \o segs[k]])

Resolved(path) ==
  LET Segs[i \in 1..Len(path) + 1] ==   \* of what is before position i
        CASE i = 1 -> <<>>
          [] i > 1 /\ CharAt(path, i) \in SlashOrEnd ->
               WithSegment(Segs[i - 1], Segment(path, i))
          [] OTHER -> Segs[i - 1]
      segs == Segs[Len(path) + 1]
  IN  IF segs = <<>> THEN <<"/">> ELSE Joined(segs)

(* The directory a path is in.                                             *)
Directory(path) == IF Parent(path) = <<>> THEN <<"/">> ELSE Parent(path)

ASSUME DiskAssumption ==
  /\ <<"/">> \in DOMAIN Tree /\ Tree[<<"/">>] = "dir"
  /\ \A path \in DOMAIN Tree \ {<<"/">>} :
       Directory(path) \in DOMAIN Tree /\ Tree[Directory(path)] = "dir"
  /\ Doc \in DOMAIN Tree /\ Tree[Doc] = "reg"
  /\ Docroot \in DOMAIN Tree /\ Tree[Docroot] = "dir"

ExistsIn(path, present) == path \in DOMAIN Tree /\ (path = Doc => present)
Exists(path) == ExistsIn(path, doc # 0)
IsRegular(path) == Tree[path] \in {"reg", "secret", "socket"}  \* st_mode & S_IFREG

InRoot_Prefix(phys) == IsPrefix(Docroot, phys)
InRoot(phys) == IsPrefix(Docroot, phys) /\ CharAt(phys, Len(Docroot) + 1) \in SlashOrEnd

Beneath(phys, name) == Append(phys, "/") \o name

LookupIn(url, present) ==
  LET buf == Asked(url)
      longest == Max({n \in 0..Len(buf) : /\ CharAt(buf, n + 1) \in SlashOrEnd
                                          /\ ExistsIn(Canon(SubSeq(buf, 1, n)), present)})
      phys == Canon(SubSeq(buf, 1, longest))
      info == SubSeq(buf, longest + 1, Len(buf))
      index == Beneath(phys, IndexFile)
      inside == Decodes(BeforeQuery(url)) /\ InRoot(phys)
  IN  CASE ~inside -> [found |-> "none", phys |-> phys]
        [] inside /\ IsRegular(phys) -> [found |-> "file", phys |-> phys]
        [] inside /\ ~IsRegular(phys) /\ (Tree[phys] # "dir" \/ info # <<>>) ->
             [found |-> "none", phys |-> phys]
        [] OTHER ->
             CASE Last(buf) # "/" -> [found |-> "redirect", phys |-> phys]
               [] Last(buf) = "/" /\ ExistsIn(index, present) /\ IsRegular(index) ->
                    [found |-> "file", phys |-> index]
               [] OTHER -> [found |-> "dir", phys |-> phys]

(* All lookups, while Doc is there and while it is not; and what they are  *)
(* compared with.                                                          *)
Lookups == [l \in (Urls \cup {DocUrl}) \X BOOLEAN |-> LookupIn(l[1], l[2])]
Lookup(url) == Lookups[<<url, doc # 0>>]
Named == [url \in Urls \cup {DocUrl} |-> Resolved(Asked(url))]

(* The URL of Doc finds it while it is there, and nothing when it is not.  *)
ASSUME DocAssumption ==
  /\ Lookups[<<DocUrl, TRUE>>].phys = Doc
  /\ Lookups[<<DocUrl, FALSE>>].found = "none"
-----------------------------------------------------------------------------
(* Validators and conditional headers.                                     *)

AnyTag == <<0, 0, 0>>          \* the tag "*"
Foreign == <<0, 0, 1>>      \* a tag Doc never had
NoDate == -1
NoTags == <<>>
NoHeaders == [ims |-> NoDate, im |-> NoTags, ir |-> FALSE, ius |-> NoDate, inm |-> NoTags]

Etag(s) == <<s.ino, s.size, s.mtime>>  \* make_file_etag
NoStat == [ino |-> 0, ver |-> 0, size |-> 0, mtime |-> 0]
(* The stat of a file.  The files that are not edited are all alike.       *)
StatOf(path) ==
  IF path = Doc /\ doc # 0 THEN inodes[doc] ELSE [NoStat EXCEPT !.size = 1]

(* The loop over a list of tags writes a zero byte at the first separator  *)
(* and is bounded by the length of the string, so it ends there: a list    *)
(* matches only when it is a single tag.                                   *)
Lists_Foreign(tags, tag) == Len(tags) = 1
Lists(tags, tag) == Len(tags) = 1 /\ tags[1] \in {AnyTag, tag}

Precondition(h, method, s) ==
  LET checks == <<
        [fails |-> h.ims # NoDate /\ h.ims >= s.mtime, code |-> 304],
        [fails |-> h.im # NoTags /\ ~Lists(h.im, Etag(s)), code |-> 412],
        [fails |-> h.ir, code |-> 412],
        [fails |-> h.ius # NoDate /\ h.ius <= s.mtime, code |-> 412],
        [fails |-> h.inm # NoTags /\ Lists(h.inm, Etag(s)),
         code |-> IF method \in {"GET", "HEAD"} THEN 304 ELSE 412] >>
      failing == {i \in DOMAIN checks : checks[i].fails}
  IN  IF failing = {} THEN 200 ELSE checks[Min(failing)].code

(* The validators a client may send: of its copy, if it has one, or others. *)
Dates == {NoDate, 0} \cup (IF copy.etag = AnyTag THEN {} ELSE {copy.mtime})
TagLists == {NoTags, <<AnyTag>>, <<Foreign>>} \cup
            (IF copy.etag = AnyTag THEN {} ELSE {<<copy.etag>>, <<Foreign, copy.etag>>})
HeaderSets ==
  [ims : Dates, im : {NoTags}, ir : {FALSE}, ius : {NoDate}, inm : TagLists] \cup
  [ims : {NoDate}, im : {NoTags, <<AnyTag>>}, ir : {FALSE}, ius : Dates, inm : {NoTags}] \cup
  [ims : Dates, im : {NoTags}, ir : {TRUE}, ius : {NoDate}, inm : {NoTags}] \cup
  {[NoHeaders EXCEPT !.im = t, !.inm = t] : t \in TagLists}
-----------------------------------------------------------------------------
NoFile == [pc |-> "idle", url |-> <<>>, method |-> "GET", headers |-> NoHeaders,
           phys |-> <<>>, s |-> NoStat, fd |-> 0, open |-> FALSE,
           body |-> <<>>, status |-> 0, broken |-> FALSE, errors |-> 0]
NoCopy == [etag |-> AnyTag, mtime |-> 0, size |-> 0, body |-> <<>>]

FileInit ==
  /\ inodes = [i \in 0..MaxEdits + 1 |->
                 CASE i = 0 -> [NoStat EXCEPT !.size = 1]
                   [] i = 1 -> [ino |-> 1, ver |-> 1, size |-> MaxSize, mtime |-> 1]
                   [] OTHER -> NoStat]
  /\ doc = 1
  /\ backdated = FALSE
  /\ edits = 0
  /\ file = NoFile
  /\ copy = NoCopy
  /\ files = 0

Answered(f, code) == [f EXCEPT !.pc = "idle", !.status = code, !.open = FALSE]

(* A request comes: uh_handle_request up to the result of path_lookup.     *)
FileRequested(url, method, h) ==
  LET l == Lookup(url)
      f == [NoFile EXCEPT !.url = url, !.method = method, !.headers = h,
                          !.phys = l.phys, !.s = StatOf(l.phys)]
  IN  /\ files' = files + 1
      /\ file' = CASE l.found = "none" -> Answered(f, 404)
                   [] l.found = "redirect" -> Answered(f, 302)
                   [] OTHER -> [f EXCEPT !.pc = "found"]
      /\ UNCHANGED <<diskvars, copy>>

FileComes ==
  /\ file.pc = "idle"
  /\ files < MaxFiles
  /\ \/ \E url \in Urls : FileRequested(url, "GET", NoHeaders)
     \/ \E method \in {"GET", "HEAD", "POST"}, h \in HeaderSets :
          FileRequested(DocUrl, method, h)

CanOpen(path) == Exists(path) /\ Tree[path] = "reg"

(* uh_file_request and uh_file_data, from the open on.                     *)
OpenFile ==
  LET code == Precondition(file.headers, file.method, file.s) IN
  /\ file.pc = "found"
  /\ file' = CASE ~CanOpen(file.phys) -> Answered(file, 403)
               [] CanOpen(file.phys) /\ code # 200 -> Answered(file, code)
               [] CanOpen(file.phys) /\ code = 200 /\ file.method = "HEAD" ->
                    Answered(file, 200)
               [] OTHER -> [file EXCEPT !.pc = "send", !.status = 200, !.open = TRUE,
                                        !.fd = IF file.phys = Doc THEN doc ELSE 0]
  /\ UNCHANGED <<diskvars, copy, files>>

(* What the client keeps of a complete answer.                             *)
Kept(f) ==
  IF f.phys = Doc /\ ~f.broken /\ Len(f.body) = f.s.size
  THEN [etag |-> Etag(f.s), mtime |-> f.s.mtime, size |-> f.s.size, body |-> f.body]
  ELSE copy

(* One turn of the loop in file_write_cb: a block, the end, or an error.   *)
ReadBlock ==
  /\ file.pc = "send"
  /\ Len(file.body) < inodes[file.fd].size
  /\ file' = [file EXCEPT !.body = Append(@, inodes[file.fd].ver)]
  /\ UNCHANGED <<diskvars, copy, files>>
ReadEnd ==
  /\ file.pc = "send"
  /\ Len(file.body) >= inodes[file.fd].size
  /\ file' = Answered(file, 200)
  /\ copy' = Kept(file)
  /\ UNCHANGED <<diskvars, files>>
(* The error is written as data with length -1, which breaks the stream,   *)
(* and the loop goes on.                                                   *)
ReadError_Returns ==
  /\ file.pc = "send"
  /\ file.errors < MaxReadErrors
  /\ file' = [file EXCEPT !.pc = "lost"]
  /\ UNCHANGED <<diskvars, copy, files>>
ReadError ==
  /\ file.pc = "send"
  /\ file.errors < MaxReadErrors
  /\ file' = [file EXCEPT !.broken = TRUE, !.errors = @ + 1]
  /\ UNCHANGED <<diskvars, copy, files>>
SendFile == ReadBlock \/ ReadEnd \/ ReadError

(* Others write Doc in place, put another file there, or remove it.  The   *)
(* time of each is counted by the edits.  The mtime need not be that time: *)
(* a second edit in a second has that of the first, and a file that was    *)
(* moved there or copied with its times brings an older one.               *)
Edit(ino, size, mtime) ==
  /\ edits < MaxEdits
  /\ edits' = edits + 1
  /\ doc' = ino
  /\ inodes' = [inodes EXCEPT ![ino] =
       [ino |-> ino, ver |-> edits + 2, size |-> size, mtime |-> mtime]]
  /\ backdated' = (backdated \/ mtime # edits + 2)
  /\ UNCHANGED <<file, copy, files>>
EditDoc ==
  \/ \E size \in 0..MaxSize, mtime \in Backdates \cup {edits + 2} :
       (doc # 0 /\ Edit(doc, size, mtime)) \/ Edit(edits + 2, size, mtime)
  \/ /\ doc # 0
     /\ edits < MaxEdits
     /\ edits' = edits + 1
     /\ doc' = 0
     /\ UNCHANGED <<inodes, backdated, file, copy, files>>

FileStep == OpenFile \/ SendFile
FileNext == FileComes \/ FileStep \/ EditDoc

(* The event loop serves a request to its end before it takes another one. *)
FileSpec == FileInit /\ [][FileNext]_filevars /\ WF_filevars(FileStep)
-----------------------------------------------------------------------------
Inodes == 0..MaxEdits + 1
Etags == {AnyTag} \cup (Inodes \X (0..MaxSize) \X Inodes)
Stats == [ino : Inodes, ver : Inodes, size : 0..MaxSize + 1, mtime : Inodes]
FileTypeOK ==
  /\ inodes \in [Inodes -> Stats]
  /\ doc \in Inodes
  /\ backdated \in BOOLEAN
  /\ edits \in 0..MaxEdits
  /\ file.pc \in {"idle", "found", "send"}
  /\ file.method \in {"GET", "HEAD", "POST"}
  /\ file.s \in Stats
  /\ file.fd \in Inodes
  /\ file.body \in Seq(Inodes)
  /\ file.status \in {0, 200, 302, 304, 403, 404, 412}
  /\ file.open = (file.pc = "send")   \* every path closes the descriptor
  /\ file.errors \in 0..MaxReadErrors
  /\ copy.etag \in Etags /\ copy.body \in Seq(Inodes)
  /\ files \in 0..MaxFiles

(* An answer 200 is for a file under the document root, and for the one    *)
(* the URL names once its escapes are decoded and its dots then resolved:  *)
(* that file, the index file of that directory, or a file the URL goes on  *)
(* after.  canonpath works on characters and path_lookup on every prefix   *)
(* of the URL in turn.                                                     *)
IsNamed(url, path) ==
  LET r == Named[url] IN
  /\ IsPrefix(Append(Docroot, "/"), path)
  /\ \/ path = r
     \/ path = Beneath(r, IndexFile)
     \/ IsPrefix(Append(path, "/"), r)
ServesNamedFile == file.status = 200 => IsNamed(file.url, file.phys)

(* A 304 is sent only when what the client has is what was there when the  *)
(* request was looked up: its blocks may be from before and after an edit, *)
(* and its validators older than either, but then they match nothing.      *)
(* That holds while each edit leaves Doc a later mtime than any before: an *)
(* If-Modified-Since is compared with >=, so an older file that was moved  *)
(* there, as much as an edit in the same second, gets a wrong 304.  And    *)
(* the tag "*" matches anything.                                           *)
NotModifiedMeansSame ==
  file.pc = "idle" /\ file.status = 304 /\ ~backdated /\ file.headers.inm # <<AnyTag>> =>
    copy.body = [i \in 1..file.s.size |-> file.s.ver]

(* If the file opened still is as it was when its size was announced, and  *)
(* no read failed, then the body is that whole file.                       *)
WholeAnswer ==
  /\ file.pc = "idle" /\ file.status = 200 /\ file.method # "HEAD"
  /\ ~file.broken
  /\ inodes[file.fd].ver = file.s.ver
  => file.body = [i \in 1..file.s.size |-> file.s.ver]

(* Together: what is sent as an answer 200 is the file asked for, all of   *)
(* it and as it was at one time (file.c:437-565).                          *)
AnswerIsTheFile == ServesNamedFile /\ WholeAnswer

(* Every request that was begun is answered, if reads do not fail forever. *)
(* The loop of file_write_cb leaves only at the end of the file.           *)
EveryRequestEnds == file.pc # "idle" ~> file.pc = "idle"
=============================================================================
