---------------------------- MODULE MCFileSystem ----------------------------
EXTENDS FileSystem

Part(name) == [name |-> name, long |-> FALSE]
Rel(names) == [abs |-> FALSE, parts |-> [i \in DOMAIN names |-> Part(names[i])]]
Abs(names) == [abs |-> TRUE, parts |-> [i \in DOMAIN names |-> Part(names[i])]]
LongA == [abs |-> FALSE, parts |-> <<[name |-> "a", long |-> TRUE]>>]
On(kind, paths) == {[kind |-> kind, path |-> q] : q \in paths}

A == Rel(<<"a">>)
AB == Rel(<<"a", "b">>)
RootB == Abs(<<"b">>)

\* Directories, one call at a time.
Trees ==
  [mode |-> "serial", budget |-> 4, overlap |-> 0,
   calls |-> On("mkdir", {A, AB}) \cup On("create", {AB, RootB})
     \cup On("remove", {A, AB, Rel(<<"a", ".">>)}) \cup On("chdir", {A, Rel(<<"..">>)})
     \cup On("open", {A})]

\* Descriptors, executables and the end of processes, one call at a time.
Descriptors ==
  [mode |-> "serial", budget |-> 4, overlap |-> 0,
   calls |-> On("create", {A}) \cup On("exec", {A}) \cup On("remove", {A})
     \cup On("open", {A, LongA, Abs(<<>>)})
     \cup [kind : {"close", "read", "write", "seek", "readdir", "exit"}]]

\* Two calls of two processes that overlap, after one that does not.
Overlap ==
  [mode |-> "parallel", budget |-> 3, overlap |-> 2,
   calls |-> On("mkdir", {A}) \cup On("remove", {A}) \cup On("open", {A})]

\* malloc fails in inode_open.
NoMemory ==
  [mode |-> "oom", budget |-> 3, overlap |-> 0,
   calls |-> On("mkdir", {A}) \cup On("chdir", {A, EmptyPath, Abs(<<"a">>)})
     \cup On("open", {Abs(<<>>), A}) \cup On("create", {AB})]

MCWorkloads == {Trees, Descriptors, Overlap, NoMemory}
=============================================================================
