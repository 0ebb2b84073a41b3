---------------------------- MODULE MCPluginScan ----------------------------
(* A program folder with Codecs, which has a subfolder, and Formats, and    *)
(* things that go wrong below them: a link to a folder elsewhere, a link    *)
(* back, a folder that can be listed but not entered, one that cannot be    *)
(* listed.  Elsewhere holds plugins under the same names.                   *)
EXTENDS PluginScan, TLC

CONSTANTS home, codecs, sub, formats, away, p1, p2, p3, p4, other, a, b, c

Nowhere == [x \in Name |-> NULL]

Plainly ==
  (home :> [Nowhere EXCEPT ![a] = p4]) @@ (away :> [Nowhere EXCEPT ![a] = p4, ![c] = other])
  @@ (codecs :> (a :> p1 @@ b :> sub @@ c :> other)) @@ (sub :> [Nowhere EXCEPT ![a] = p2, ![c] = other])
  @@ (formats :> [Nowhere EXCEPT ![b] = p3])

Linked(place) == [Plainly EXCEPT ![sub][b] = place]

Up == (home :> home) @@ (codecs :> home) @@ (sub :> codecs) @@ (formats :> home) @@ (away :> home)

Tree(entry, readable, searchable, relative) ==
  [entry |-> entry, up |-> Up, readable |-> readable, searchable |-> searchable,
   relative |-> relative]

FileSystems ==
  {Tree(entry, readable, searchable, relative) :
     entry \in {Plainly, Linked(away), Linked(codecs), Linked(sub)},
     readable \in {Directory, Directory \ {sub}},
     searchable \in {Directory, Directory \ {sub}, Directory \ {formats}},
     relative \in BOOLEAN}

FoldersOf7z == <<codecs, formats>>
=============================================================================
