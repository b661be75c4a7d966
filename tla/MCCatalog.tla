------------------------------ MODULE MCCatalog ------------------------------
\* Two names of which the second begins like the keys of the first, and a third;
\* contents with a path whose keys look like those of the second name, a path
\* with a character of two bytes, and a file that becomes a directory.
EXTENDS Catalog

MCNames == {<<"a">>, <<"a", ":", "b">>, <<"c">>}
MCLower(c) == IF c = "P" THEN "p" ELSE c

Item(type, data) == [type |-> type, data |-> data]
MCContents ==
  {(<<"P", "q">> :> Item("file", 1)) @@ (<<"b", ":", "p">> :> Item("file", 2)),
   (<<"P", "q">> :> Item("dir", 1)) @@ (<<"q">> :> Item("file", 2)),
   <<"u", "p">> :> Item("file", 2)}

MCQueries ==
  {Query("glob", pattern, Anywhere, "any", 0, 9, 9) :
     pattern \in {<<"*", "p", "*">>, <<"p", "*", "?">>, <<"?", "*", ":", "?">>}}
  \cup {Query("contains", <<"P">>, Anywhere, "any", 0, 9, limit) : limit \in {0, 9}}
  \cup {Query("exact", <<"p", "Q">>, Anywhere, "file", 0, 9, 9),
        Query("contains", << >>, Anywhere, "file", 2, 9, 9),
        Query("contains", << >>, <<"a">>, "any", 0, 9, 9)}
===============================================================================
