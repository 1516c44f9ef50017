------------------------------ MODULE Parsers ------------------------------
(***************************************************************************)
(* The parsers of what vos, fs, pts and afsdump_scan print (fabs/cmd.py).  *)
(*                                                                         *)
(* A line is a record: its fields are the patterns (regular expressions)   *)
(* that match the line, and the value of a field is what the pattern       *)
(* captures.  Every line matches the pattern "any".  A parser goes through *)
(* its alternatives in order, takes the first that matches, and works the  *)
(* captures into its state.                                                *)
(*                                                                         *)
(* All parsers share one shape of state: the items that are complete, the  *)
(* item that is being read, the entry of the VLDB that vos examine shows,  *)
(* a number, a mode, and whether a line was not understood.                *)
(***************************************************************************)
EXTENDS SequencesExt

-----------------------------------------------------------------------------
(***************************************************************************)
(* Patterns.                                                               *)
(***************************************************************************)

Ids == {"rwid", "roid", "bkid", "clid"}

\* An alternative with several patterns merges all that match (_PatternAll).
\* The release type of a site is part of what "site" captures.
ListVLDBPatterns ==
  << {"blank"}, {"banner"}, {"total"}, {"word"}, Ids, {"n_sites"}, {"site"},
     {"locked"}, {"lock_reason"} >>

ExaminePatterns ==
  << {"blank"}, {"banner"}, {"busy"}, {"unattached"}, {"header"}, {"place"},
     {"hdr_ids"}, {"maxquota"}, {"time"}, {"accesses"}, Ids, {"n_sites"},
     {"site"}, {"locked"}, {"lock_reason"}, {"bare"} >>

ListAddrsPatterns == << {"uuid"}, {"addr"}, {"blank"} >>
ListACLPatterns == << {"banner"}, {"normal"}, {"negative"}, {"acl"} >>

VolHeaderPatterns ==
  << {"banner"}, {"volid"}, {"field"}, {"name"}, {"vtype"}, {"rwid"},
     {"maxquota"}, {"size"}, {"time"}, {"accesses"} >>

SymlinkPatterns ==
  << {"symlink"}, {"vnode"}, {"target"}, {"path"}, {"field"}, {"any"} >>

\* Each command has its parser.
Patterns ==
  [listvldb   |-> ListVLDBPatterns,
   examine    |-> ExaminePatterns,
   listaddrs  |-> ListAddrsPatterns,
   listacl    |-> ListACLPatterns,
   membership |-> << {"banner"}, {"group"} >>,
   wscell     |-> << {"cell"} >>,
   size       |-> << {"banner"}, {"dump_size"} >>,
   volheader  |-> VolHeaderPatterns,
   symlinks   |-> SymlinkPatterns,
   nop        |-> << {"any"} >>]

\* The first alternative that matches a line, and what it captures.
FirstMatch(alts, line) == SelectInSeq(alts, LAMBDA alt : alt \cap DOMAIN line # {})
Captures(alt, line) == [p \in alt \cap DOMAIN line |-> line[p]]

Skips(cmd) == {"blank", "banner", "field"} \cup (IF cmd = "nop" THEN {"any"} ELSE {})

\* Patterns that match any word: they match a part of a line as well.
Generic == {"any", "word", "bare", "addr"}
Torn(line) == [p \in DOMAIN line \cap Generic |-> "torn"]

-----------------------------------------------------------------------------
(***************************************************************************)
(* Items and entries.                                                      *)
(***************************************************************************)

Site(at, rel) == [at |-> at, rel |-> rel]
Entry(name) == [name |-> name, attrs |-> <<>>, sites |-> <<>>]
Header(volid, status) == [volid |-> volid, status |-> status, attrs |-> <<>>]
ACLEntry(kind, name) == <<kind, name>>

FirstState(prog) ==
  [items |-> <<>>, vl |-> <<>>, num |-> 0, mode |-> "none", err |-> FALSE,
   cur |-> IF prog.cmd = "volheader" THEN <<Header(0, "")>> ELSE <<>>]

(***************************************************************************)
(* What the parsers make of the captures d of a line (parse_line_data).    *)
(***************************************************************************)

Unmatched(st) == [st EXCEPT !.err = TRUE]
Saw(d, keys) == DOMAIN d \cap keys # {}

\* The item being read is complete.
GotItem(st) == [st EXCEPT !.items = @ \o st.cur, !.cur = <<>>]
NextItem(st, item) == [GotItem(st) EXCEPT !.cur = <<item>>]

\* Attributes need an item, or an entry, to belong to.
SetItem(st, d) ==
  IF st.cur = <<>> THEN Unmatched(st) ELSE [st EXCEPT !.cur[1].attrs = d @@ @]
SetEntry(st, d) ==
  IF st.vl = <<>> THEN Unmatched(st) ELSE [st EXCEPT !.vl[1].attrs = d @@ @]

ListVLDB(st, d) ==
  CASE Saw(d, {"total"}) -> [st EXCEPT !.num = d.total]
    [] Saw(d, {"word"})  -> NextItem(st, Entry(d.word))
    [] Saw(d, {"site"})  ->
         IF st.cur = <<>> THEN Unmatched(st)
         ELSE [st EXCEPT !.cur[1].sites = Append(@, d.site)]
    [] OTHER -> SetItem(st, d)

\* A name on a line of its own means that the server cannot be reached:
\* what follows is from the VLDB only, and is ignored.
Examine(st, d) ==
  LET vlKeys == {"n_sites", "locked", "lock_reason"}
  IN  IF Saw(d, {"bare"}) THEN [st EXCEPT !.mode = "failed"]
      ELSE IF st.mode = "failed"
      THEN IF Saw(d, Ids \cup vlKeys \cup {"site"}) THEN st ELSE Unmatched(st)
      ELSE CASE Saw(d, {"busy"})       -> NextItem(st, Header(d.busy, "busy"))
             [] Saw(d, {"unattached"}) -> NextItem(st, Header(d.unattached, "error"))
             [] Saw(d, {"header"})     ->
                  IF d.header.status \in {"On-line", "Off-line"}
                  THEN NextItem(st, Header(d.header.volid, d.header.status))
                  ELSE Unmatched(st)
             [] Saw(d, Ids)            ->
                  SetEntry([st EXCEPT !.vl = IF @ = <<>> THEN <<Entry("")>> ELSE @], d)
             [] Saw(d, vlKeys)         -> SetEntry(st, d)
             [] Saw(d, {"site"})       ->
                  IF st.vl = <<>> THEN Unmatched(st)
                  ELSE [st EXCEPT !.vl[1].sites = Append(@, d.site)]
             [] OTHER                  -> SetItem(st, d)

\* An address belongs to the server named before it; without such a name every
\* address is a server.  (No caller asks for the addresses of one uuid.)
ListAddrs(st, d) ==
  IF Saw(d, {"uuid"}) THEN NextItem(st, [uuid |-> <<d.uuid>>, addrs |-> <<>>])
  ELSE IF st.cur = <<>>
       THEN GotItem([st EXCEPT !.cur = <<[uuid |-> <<>>, addrs |-> <<d.addr>>]>>])
       ELSE [st EXCEPT !.cur[1].addrs = Append(@, d.addr)]

\* Normal rights and negative rights.
ListACL(st, d) ==
  CASE Saw(d, {"normal"})   -> [st EXCEPT !.mode = "normal"]
    [] Saw(d, {"negative"}) -> [st EXCEPT !.mode = "negative"]
    [] OTHER -> IF st.mode = "none" THEN Unmatched(st)
                ELSE [st EXCEPT !.items = Append(@, ACLEntry(st.mode, d.acl))]

Membership(st, d) == [st EXCEPT !.items = Append(@, d.group)]

WsCell(st, d) ==
  IF st.items # <<>> THEN Unmatched(st) ELSE [st EXCEPT !.items = <<d.cell>>]

Size(st, d) == [st EXCEPT !.items = <<d.dump_size>>]

\* The header of a dump: there is one, whatever was printed.
VolHeader(st, d) == SetItem(st, d)

\* The vnodes of a dump: the path of a symlink follows its target.
Symlinks(st, d) ==
  IF Saw(d, {"symlink"}) THEN [st EXCEPT !.mode = "symlink", !.cur = <<>>]
  ELSE IF Saw(d, {"vnode"}) THEN [st EXCEPT !.mode = "vnode", !.cur = <<>>]
  ELSE IF st.mode = "vnode" THEN st
  ELSE IF st.mode = "none" \/ Saw(d, {"any"}) THEN Unmatched(st)
  ELSE IF Saw(d, {"target"}) THEN [st EXCEPT !.cur = <<d.target>>]
  ELSE IF st.cur = <<>> THEN Unmatched(st)
  ELSE [st EXCEPT !.items = Append(@, <<d.path, st.cur[1]>>),
                  !.mode = "none", !.cur = <<>>]

\* Commands without output of interest have no captures.
Take(cmd, st, d) ==
  CASE cmd = "listvldb"   -> ListVLDB(st, d)
    [] cmd = "examine"    -> Examine(st, d)
    [] cmd = "listaddrs"  -> ListAddrs(st, d)
    [] cmd = "listacl"    -> ListACL(st, d)
    [] cmd = "membership" -> Membership(st, d)
    [] cmd = "wscell"     -> WsCell(st, d)
    [] cmd = "size"       -> Size(st, d)
    [] cmd = "volheader"  -> VolHeader(st, d)
    [] cmd = "symlinks"   -> Symlinks(st, d)

\* _parse_line: the first error ends the parsing.
FeedLine(cmd, st, line) ==
  LET alts == Patterns[cmd]
      hit  == FirstMatch(alts, line)
  IN  IF st.err THEN st
      ELSE IF hit = 0 THEN Unmatched(st)
      ELSE IF alts[hit] \subseteq Skips(cmd) THEN st
      ELSE Take(cmd, st, Captures(alts[hit], line))

\* The line that pieces of text make up: a piece is the number of its line and
\* which half of the line it is.
Joined(lines, text) ==
  LET i == text[1][1]
  IN  IF text = << <<i, 1>>, <<i, 2>> >> THEN lines[i] ELSE Torn(lines[i])

\* _TextLines hands over complete lines.
Feed(prog, st, texts) ==
  FoldLeft(LAMBDA s, text : FeedLine(prog.cmd, s, Joined(prog.lines, text)), st, texts)

\* done: the item being read is complete.
AtEnd(prog, st) ==
  IF prog.cmd \in {"listvldb", "examine", "listaddrs", "volheader"} THEN GotItem(st) ELSE st

\* get_result: also how many entries of the VLDB are locked.
Result(prog, st) ==
  [items |-> st.items, vl |-> st.vl, num |-> st.num,
   locked |-> Len(SelectSeq(st.items, LAMBDA e : /\ prog.cmd = "listvldb"
                                                 /\ "locked" \in DOMAIN e.attrs))]

-----------------------------------------------------------------------------
(***************************************************************************)
(* What the programs print: the listing of a given result.                 *)
(***************************************************************************)

Line(f) == f @@ [any |-> "text"]

Banner == << Line([banner |-> "text", word |-> "banner"]) >>
Blank == << Line([blank |-> ""]) >>

\* One line for each attribute; the ids share one.
FieldLines(attrs) ==
  [i \in 1 .. Cardinality(DOMAIN attrs) |->
     LET a == SetToSeq(DOMAIN attrs)[i] IN Line(a :> attrs[a])]

EntryLines(e) ==
  LET Only(S) == [a \in DOMAIN e.attrs \cap S |-> e.attrs[a]]
  IN  <<Line(Only(Ids))>> \o FieldLines(Only({"n_sites"}))
      \o [i \in DOMAIN e.sites |-> Line([site |-> e.sites[i]])]
      \o FieldLines(Only({"locked", "lock_reason"}))

NamedLines(e) == <<Line([word |-> e.name])>> \o EntryLines(e)

HeaderLines(h) ==
  (CASE h.status = "busy"  -> <<Line([busy |-> h.volid])>>
     [] h.status = "error" -> <<Line([unattached |-> h.volid])>>
     [] OTHER -> <<Line([header |-> [volid |-> h.volid, status |-> h.status]])>>)
  \o FieldLines(h.attrs)

ServerLines(s) ==
  [i \in DOMAIN s.uuid |-> Line([uuid |-> s.uuid[1], addr |-> s.uuid[1]])]
  \o [i \in DOMAIN s.addrs |-> Line([addr |-> s.addrs[i]])]

ACLLines(items, kind) ==
  LET own == SelectSeq(items, LAMBDA it : it[1] = kind)
  IN  IF own = <<>> THEN <<>>
      ELSE <<Line(kind :> TRUE)>> \o [i \in DOMAIN own |-> Line([acl |-> own[i][2]])]

Each(items, key) == [i \in DOMAIN items |-> Line(key :> items[i])]

\* A symlink comes after a vnode that is none, whose lines may be anything.
SymlinkLines(it) ==
  << Line([vnode |-> "dir"]), Line([target |-> "odd"]), Line([field |-> "x"]),
     Line([symlink |-> TRUE, vnode |-> "link"]), Line([target |-> it[2]]),
     Line([path |-> it[1]]) >>

Listing(cmd, r) ==
  LET Flat(F(_)) == FlattenSeq([i \in DOMAIN r.items |-> F(r.items[i])])
  IN  CASE cmd = "listvldb" ->
             Banner \o Flat(NamedLines) \o Blank
             \o <<Line([total |-> r.num, word |-> "total"])>>
        [] cmd = "examine" ->
             Banner \o Flat(HeaderLines) \o Blank
             \o FlattenSeq([i \in DOMAIN r.vl |-> EntryLines(r.vl[i])])
        [] cmd = "listaddrs" -> Flat(ServerLines) \o Blank
        [] cmd = "listacl" ->
             Banner \o ACLLines(r.items, "normal") \o ACLLines(r.items, "negative")
        [] cmd = "membership" -> Banner \o Each(r.items, "group")
        [] cmd = "wscell"     -> Each(r.items, "cell")
        [] cmd = "size"       -> Banner \o Each(r.items, "dump_size")
        [] cmd = "volheader"  ->
             Banner \o FieldLines(r.items[1].attrs)
        [] cmd = "symlinks"   -> Flat(SymlinkLines)
        [] cmd = "nop"        -> <<Line([word |-> "text"])>>

=============================================================================
