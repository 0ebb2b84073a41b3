-------------------------- MODULE MCArchiveLibrary --------------------------
(* Installations of 7z.so with up to three plugins: one that only has       *)
(* codecs, one that adds formats, one that is no plugin at all.             *)
EXTENDS ArchiveLibrary

CONSTANTS so7z, rar, extra, text

Characters == {"7", "z", "j", "i", "g", "d", "Z", "I", ".", "/", " "}

UpperCase == [c \in Characters |-> CASE c = "z" -> "Z" [] c = "i" -> "I" [] OTHER -> c]

AFormat(name, readable, exts) == [name |-> name, readable |-> readable, exts |-> exts]
Coder(id, readable, decoder) == [id |-> id, readable |-> readable, decoder |-> decoder]

SevenZ == <<"7", "z">>

(* Lists of one extension, of two, with a space to many, and overlapping.   *)
SevenZipFormats ==
  {<<AFormat("7z", TRUE, SevenZ), AFormat("zip", TRUE, <<"z", "i", " ", "j">>)>>,
   <<AFormat("7z", TRUE, SevenZ), AFormat("iso", TRUE, <<" ", "i", " ", " ", "g", " ">>),
     AFormat("udf", TRUE, <<"i">>)>>,
   <<AFormat("7z", FALSE, SevenZ), AFormat("zip", TRUE, <<"z", "i", " ", "j">>)>>}

(* The second method of 7z.so cannot be read, and the third only encodes.   *)
SevenZipCoders ==
  <<Coder("lzma", TRUE, TRUE), Coder("bcj", FALSE, TRUE), Coder("ppmd", TRUE, TRUE),
    Coder("copy", TRUE, FALSE)>>

Exports(valid, methods, handles, counts, many, formats, coders) ==
  [valid |-> valid, methods |-> methods, handles |-> handles, counts |-> counts,
   many |-> many, creates |-> TRUE, formats |-> formats, coders |-> coders]

OfferOf(d, formats, methods, counts) ==
  CASE d = so7z  -> Exports(TRUE, methods, TRUE, counts, TRUE, formats, SevenZipCoders)
    [] d = rar   -> Exports(TRUE, TRUE, FALSE, FALSE, FALSE, <<>>, <<Coder("rar", TRUE, TRUE)>>)
    [] d = extra -> Exports(TRUE, FALSE, TRUE, TRUE, FALSE,
                            <<AFormat("zip", TRUE, <<"z", "i">>)>>, <<>>)
    [] d = text  -> Exports(FALSE, FALSE, FALSE, FALSE, FALSE, <<>>, <<>>)

Install(found, plugins, codecs, formats, methods, counts) ==
  [found |-> found, plugins |-> plugins, codecs |-> codecs,
   offer |-> [d \in Dll |-> OfferOf(d, formats, methods, counts)]]

(* The installation when only the objects of good can create archives.      *)
Creating(i, good) ==
  [i EXCEPT !.offer = [d \in Dll |-> [i.offer[d] EXCEPT !.creates = d \in good]]]

FewOffsets == {-1, 0}

Plugins == {<<>>, <<rar, text>>, <<text, extra>>, <<rar, extra, rar>>}

Installs ==
  {Install(TRUE, plugins, codecs, formats, methods, counts) :
     plugins \in Plugins, codecs \in {"unused", "taken"}, formats \in SevenZipFormats,
     methods \in BOOLEAN, counts \in BOOLEAN}
  \cup {Install(found, plugins, "refused", formats, TRUE, TRUE) :
     found \in BOOLEAN, plugins \in Plugins, formats \in SevenZipFormats}
  \cup {Install(TRUE, plugins, "declined", formats, TRUE, TRUE) :
     plugins \in {<<>>, <<text, extra>>}, formats \in SevenZipFormats}
  \cup {Creating(Install(TRUE, <<rar, extra, rar>>, "taken", formats, TRUE, TRUE), {d}) :
     d \in {so7z, extra}, formats \in SevenZipFormats}

File(path, opens, length, readBy, counted) ==
  [path |-> path, opens |-> opens, length |-> length, readBy |-> readBy, counted |-> counted]

(* Extensions in small letters and capitals, behind a dot in the name or in *)
(* a directory's, empty, and none.                                          *)
Paths ==
  {<<"d">>, <<"d", ".", "z", "i">>, <<"d", ".", "7", "z", ".", "Z", "i">>, <<"d", ".", "i">>,
   <<"d", ".", "j", "/", "d">>, <<"d", ".", "g", "/", "d", ".", "7", "Z">>, <<"d", ".">>}

Mountable ==
  {File(path, TRUE, 2, readBy, TRUE) : path \in Paths, readBy \in {{}, {"7z"}, {"zip"}, {"udf"}}}
  \cup {File(<<"d", ".", "z", "i">>, opens, 5, {"zip"}, counted) : opens, counted \in BOOLEAN}
=============================================================================
