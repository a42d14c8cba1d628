----------------------------- MODULE MCFileSystem -----------------------------
EXTENDS FileSystem

MCOpenPaths == {<<"a", "b">>}
MCPaths == {<<>>, <<"a">>, <<"b">>, <<"a", "b">>}
=============================================================================
