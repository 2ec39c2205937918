---------------------------- MODULE MCFileRequest ----------------------------
(***************************************************************************)
(* A small disk: the document root /a with the edited file /a/aa and one   *)
(* node of each other kind, and beside it /aa, which a URL without leading *)
(* slash or with dots might reach.                                         *)
(***************************************************************************)
EXTENDS FileRequest

Plain == {"/", ".", "a"}
MCEscapes == "%2f" :> "/" @@ "%2e" :> "."
MCChars == Plain \cup DOMAIN MCEscapes \cup {"i", "%", "?"}
MCDocroot == <<"/", "a">>
MCIndexFile == <<"i">>
MCDocUrl == <<"/", "a", "a">>
MCDoc == MCDocroot \o MCDocUrl

MCTree ==
  LET Dirs == {<<"/">>, MCDocroot, MCDocroot \o <<"/", "a">>}
      Files == {MCDoc, MCDocUrl, MCDocroot \o <<"/", "a", "/", "i">>}
      Others == MCDocroot \o <<"/", ".", "a">> :> "fifo" @@
                MCDocroot \o <<"/", "a", ".">> :> "socket" @@
                MCDocroot \o <<"/", "a", "a", "a">> :> "secret"
  IN  [p \in Dirs |-> "dir"] @@ [p \in Files |-> "reg"] @@ Others

(* Every URL of up to two characters and every one of three behind a       *)
(* slash, and longer ones that go through a file, out of a directory and   *)
(* back, or past the document root, some of them with escapes or a query.  *)
MCUrls ==
  UNION {[1..n -> Plain] : n \in 1..2} \cup
  {<<"/">> \o s : s \in [1..2 -> Plain]} \cup
  {<<"/", "a", "/", "/">>, <<"/", "a", "a", "a">>, <<"/", "a", "/", ".">>,
   <<"/", "a", "/", "a">>, <<"/", "/", "a", "a">>,
   <<"/", "a", "a", "/", ".", ".">>, <<"/", "a", "/", ".", ".", "/", "a", "a">>,
   <<"/", "a", "/", ".", "/", "/">>, <<"/", ".", ".", "/", "a", "/", "a", "a">>,
   <<"/", ".", ".", "/", "a", "a">>, <<"/", "a", "a", "/", "a", "/", ".", ".", "a">>,
   <<"/", "a", "a", "/", ".", ".", "/", ".", ".", "/", "a">>,
   <<"/", "a", "%">>, <<"/", "a", "a", "?", "%">>, <<"/", "?", "a">>,
   <<"/", "%2e", ".", "/", "a", "a">>, <<"/", "%2e", "%2e", "%2f", "a", "a">>,
   <<"%2f", "a", "%2f", "%2e", "%2e", "%2f", "a", "a">>}
-----------------------------------------------------------------------------
(* The tables of the lookups are of this type; TLC works them out here.    *)
ASSUME LookupTypes ==
  /\ Lookups \in [(Urls \cup {DocUrl}) \X BOOLEAN ->
                    [found : {"none", "redirect", "file", "dir"}, phys : Seq(Chars)]]
  /\ Named \in [Urls \cup {DocUrl} -> Seq(Chars)]
=============================================================================
