------------------------------ MODULE MC_FakeFS ------------------------------
(***************************************************************************)
(* Instances of the file system for TLC.                                   *)
(***************************************************************************)
EXTENDS FakeFSProperties

\* Downwards, the root last of all, or upwards with a block before the root.
MCOrders == {<<4, 3, 2, 1, 0>>, <<1, 0, 2, 3, 4>>}

\* Two files, and one in a directory that a file may also take the place of.
MCPaths == {<<"a">>, <<"b">>}
MCBuffers == {<<Entry("x", 0), Entry("y", 0), Entry("z", 0)>>}
\* A second block for the root, which gets an indirect block too.
MCGrown == {<<<<>>, 2>>, <<<<"a">>, 1>>}
MCDirs == {<<"d">>}
MCNames == {<<>>, <<"a">>}
MCPerms == {{8, 7, 5, 2}}
MCFakePaths == {<<"a">>, Info}
MCFakeBuffers == {<<Entry("w", 0)>>}
MCCopies == {<<Info, <<"a">>>>, <<<<"a">>, <<"d", "a">>>>}
MCCalls == [library |-> 6, fakefs |-> 5]
=============================================================================
