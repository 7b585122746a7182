----------------------------- MODULE MCPlugins -----------------------------
(* A small instance of Plugins for TLC: the same name on two paths, a      *)
(* library of another version, equal ranks, and names too long by one.     *)
EXTENDS Plugins

Lib(plugin, name, rank, loads) ==
    [plugin |-> plugin, name |-> name, rank |-> rank, loads |-> loads]

MCPaths == <<{Lib("other", "x", 2, TRUE),
              Lib("webbrowserurlreader", "web", 3, FALSE)},
             {Lib("dummytrackerplugin", "x", 1, TRUE),
              Lib("webbrowserurlreader", "web", 1, TRUE),
              Lib("gnomescreensaver", "gs", 1, TRUE)}>>

MCNames == {<< <<"a">>, <<"t">> >>, << <<"a", "b">>, <<"t", "u", "v", "w">> >>}
=============================================================================
