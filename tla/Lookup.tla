------------------------------- MODULE Lookup -------------------------------
(***************************************************************************)
(* What a file server and its clients make of a path, if the volumes have  *)
(* the links that "Tree" says: the reference for the translation of paths. *)
(* It walks name by name, keeps the directories that it went through, and  *)
(* walks the text of a symlink from where the symlink is.                  *)
(***************************************************************************)
EXTENDS Archive

\* The directories above the cell, which are in no volume of it.
Outside == "outside"

\* The links of the volumes that have dumps, the same in all of them.
Tree ==
  [v \in Known \cup {Outside} |->
     IF v = Outside THEN [p \in {<<"afs", cell>> : cell \in Cell} |-> [kind |-> "mount", to |-> Root]]
     ELSE LinksOf[CHOOSE j \in DOMAIN VolOf : VolOf[j] = v]]

Slash == <<[vol |-> Outside, rel |-> <<>>]>>

\* "n" symlinks may still be followed.  "dots" says that there was a ".." after a
\* symlink, or after a name that leads nowhere, in the same text; "rw" that it went
\* through a '%' mount point.
Start == [ok |-> TRUE, dirs |-> Slash, n |-> MaxSymlinks, dots |-> FALSE, rw |-> FALSE]

\* Without the last.
Above(q) == IF q = <<>> THEN <<>> ELSE SubSeq(q, 1, Len(q) - 1)

Nowhere(s, todo) == [s EXCEPT !.ok = FALSE, !.dots = @ \/ ".." \in Range(todo)]

\* "links" says of the names of this text that lead here which were symlinks.
RECURSIVE Lookup(_, _, _)
Lookup(s, todo, links) ==
  LET here  == s.dirs[Len(s.dirs)]
      there == [here EXCEPT !.rel = Append(@, todo[1])]
      On(r, link) == Lookup(r, Tail(todo), Append(links, link))
      Up == [s EXCEPT !.dirs = Above(@), !.dots = @ \/ (links # <<>> /\ links[Len(links)])]
      Inside(t) == [s EXCEPT !.dirs = Append(@, [vol |-> t.to, rel |-> <<>>]),
                             !.rw = @ \/ t.kind = "rw"]
      Via(t) == [s EXCEPT !.dirs = IF t.kind = "abs" THEN Slash ELSE @, !.n = @ - 1]
      Linked(t) ==
        CASE t.kind \in {"mount", "rw"} /\ t.to \in Known -> On(Inside(t), FALSE)
          [] t.kind \in {"abs", "rel"} /\ s.n > 0 -> On(Lookup(Via(t), t.to, <<>>), TRUE)
          [] OTHER -> Nowhere(s, todo)
  IN  CASE todo = <<>> -> s
        [] todo # <<>> /\ (~ s.ok \/ (todo[1] = ".." /\ s.dirs = Slash)) -> Nowhere(s, todo)
        [] OTHER ->
             CASE todo[1] = "."  -> Lookup(s, Tail(todo), links)
               [] todo[1] = ".." -> Lookup(Up, Tail(todo), Above(links))
               [] OTHER ->
                    IF there.rel \in DOMAIN Tree[here.vol] THEN Linked(Tree[here.vol][there.rel])
                    ELSE On([s EXCEPT !.dirs = Append(@, there)], FALSE)

-----------------------------------------------------------------------------

VolumeAt(r) == r.dirs[Len(r.dirs)].vol

\* What the code makes of a path is what a client makes of it.  A path that leads to
\* "/" leads to the volume of its last symlink.
Agrees(r) ==
  /\ walk.at = "found" => r.ok /\ (VolumeAt(r) = walk.vol \/ r.dirs = Slash)
  /\ walk.at = "error" /\ walk.known = Known => ~ r.ok \/ VolumeAt(r) = Outside

\* A path is translated to the volume that holds it, through symlinks, relative
\* or not, symlinks to symlinks, mount points and "..", if the volumes were the
\* same in all dumps; a path that goes in circles is given up.  Dumps may be
\* inserted while it is walked, but no links of a dump may be missing.  (But for a
\* ".." after a symlink, which is taken out with the symlink before that is looked
\* for, and for a '%' mount point, which the code takes for a symlink.)
PathFound ==
  walk.at \in {"found", "error"} /\ ~ walk.torn =>
    \E r \in {Lookup(Start, walk.asked, <<>>)} : r.dots \/ r.rw \/ Agrees(r)
=============================================================================
