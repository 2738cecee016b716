----------------------------- MODULE ModelFiles ------------------------------
(***************************************************************************)
(* The directory of models: pull/mod.rs and the copy, delete and pull      *)
(* handlers of api/ollama_manage.rs.  The server and the command line      *)
(* (`ssd-llm pull`) work on it as two processes.  A download is run by     *)
(* curl into <name>.gguf.part, which a later download resumes, and renamed *)
(* to its name when curl has succeeded; the first bytes are looked at      *)
(* after that.  <name> is the file's name in its repository: files of one  *)
(* name in two repositories share it.  A file is an inode, a sequence of   *)
(* blocks; a process that has it open, or mapped, keeps it when its name   *)
(* goes.                                                                   *)
(***************************************************************************)
EXTENDS Integers, Sequences, FiniteSets, SequencesExt, FiniteSetsExt

CONSTANTS Models,       \* names of models, in lower case
          Remote,       \* spec -> its file, a sequence of blocks
          Inodes,       \* a set of naturals
          Asked,        \* names that requests give
          MaxPulls,     \* bound: downloads that are started
          MaxEdits,     \* bound: copies and deletions
          NewNamesOnly  \* copies are made to names that are not there

\* A spec is [repo, model].  A download without such a file brings a page.
Page == <<"page">>
Specs == DOMAIN Remote
Processes == {"server", "cli"}

\* A file name: the model, its case, and what follows it.
Names == [model : Models, upper : BOOLEAN, ext : {"", ".gguf", ".gguf.part"}]

ASSUME ModelFilesAssumption ==
    /\ Specs # {}
    /\ \A s \in Specs : /\ s.model \in Models /\ Remote[s] \in Seq(Range(Remote[s]))
                        /\ Remote[s] # <<>> /\ Head(Remote[s]) # "page"
    /\ Asked \subseteq Names
    /\ Inodes \subseteq Nat /\ 0 \in Inodes /\ MaxPulls \in Nat /\ MaxEdits \in Nat
    /\ NewNamesOnly \in BOOLEAN

VARIABLES dir,      \* name -> inode
          data,     \* inode -> blocks
          pull,     \* of a process: the download it runs
          served,   \* the inode the server has mapped, and its blocks then
          writers,  \* history: the specs downloaded into an inode since it was empty
          crowded,  \* history: inodes that two downloads had open at one time
          pulls, edits

history  == <<writers, crowded>>
fileVars == <<dir, data, pull, served, history, pulls, edits>>

Idle == [pc |-> "idle", spec |-> CHOOSE s \in Specs : TRUE, fd |-> -1, at |-> 0, append |-> FALSE]

FileName(m) == [model |-> m, upper |-> FALSE, ext |-> ".gguf"]
\* output_path.with_extension("gguf.part")
TempName(m) == [model |-> m, upper |-> FALSE, ext |-> ".gguf.part"]

Bind(d, n, i) == [k \in DOMAIN d \cup {n} |-> IF k = n THEN i ELSE d[k]]
Unbind(d, n)  == [k \in DOMAIN d \ {n} |-> d[k]]
Renamed(d, n, m) == [k \in (DOMAIN d \ {n}) \cup {m} |-> IF k = m THEN d[n] ELSE d[k]]
Put(i, blocks) == data' = [data EXCEPT ![i] = blocks]

\* An inode that nobody names, has open or has mapped.
Free == Inodes \ ({dir[n] : n \in DOMAIN dir} \cup {pull[p].fd : p \in Processes} \cup {served[1]})
Fresh == CHOOSE i \in Free : TRUE

\* The server serves a model of this directory.
FilesInit ==
    LET s == Idle.spec IN
    /\ dir = Bind(<<>>, FileName(s.model), 0)
    /\ data = [i \in Inodes |-> IF i = 0 THEN Remote[s] ELSE <<>>]
    /\ pull = [p \in Processes |-> Idle]
    /\ served = <<0, Remote[s]>>
    /\ writers = [i \in Inodes |-> {}] /\ crowded = {}
    /\ pulls = 0 /\ edits = 0

-----------------------------------------------------------------------------
\* resolve_model_path: the name, the name with .gguf, or any entry that is one of
\* these but for its case.  The listing has no order.
Resolve(n) ==
    LET dotted == [n EXCEPT !.ext = ".gguf"]
        same(a, b) == a.model = b.model /\ a.ext = b.ext
    IN  IF n \in DOMAIN dir THEN {n}
        ELSE IF n.ext = "" /\ dotted \in DOMAIN dir THEN {dotted}
        ELSE {k \in DOMAIN dir : same(k, n) \/ (n.ext = "" /\ same(k, dotted))}

\* sanitize_filename
Sanitized(n) == IF n.ext = ".gguf" THEN n ELSE [n EXCEPT !.ext = ".gguf"]

\* handle_copy: fs::copy truncates the destination, which may be the source, and
\* fills it; a copy that fails leaves what it has written.  A destination that
\* ends in .part gets .gguf behind it and is another name altogether.
Copy(from, to) ==
    /\ pull["server"].pc = "idle" /\ edits < MaxEdits
    /\ to.ext # ".gguf.part"
    /\ \E p \in Resolve(from) :
         LET dst  == Sanitized(to)
             old  == dst \in DOMAIN dir
             i    == IF old THEN dir[dst] ELSE Fresh
             full == IF old /\ dir[dst] = dir[p] THEN <<>> ELSE data[dir[p]]
         IN  /\ NewNamesOnly => ~old
             /\ old \/ Free # {}
             /\ dir' = Bind(dir, dst, i)
             /\ \E n \in 0..Len(full) : Put(i, SubSeq(full, 1, n))
    /\ edits' = edits + 1
    /\ UNCHANGED <<pull, served, history, pulls>>

\* handle_delete
Delete(n) ==
    /\ pull["server"].pc = "idle" /\ edits < MaxEdits
    /\ \E p \in Resolve(n) : dir' = Unbind(dir, p)
    /\ edits' = edits + 1
    /\ UNCHANGED <<data, pull, served, history, pulls>>

-----------------------------------------------------------------------------
\* download_model, with force from the command line only.  What is there already
\* is taken as it is; what is there of the temporary file is resumed.
Start(p, s) ==
    /\ pull[p].pc = "idle" /\ pulls < MaxPulls
    /\ \/ /\ FileName(s.model) \in DOMAIN dir
          /\ pull' = [pull EXCEPT ![p] = [Idle EXCEPT !.pc = "exists", !.spec = s]]
       \/ /\ FileName(s.model) \notin DOMAIN dir \/ p = "cli"
          /\ pull' = [pull EXCEPT ![p] = [Idle EXCEPT !.pc = "curl", !.spec = s,
                                            !.append = TempName(s.model) \in DOMAIN dir]]
    /\ pulls' = pulls + 1
    /\ UNCHANGED <<dir, data, served, history, edits>>

\* Another process has the inode open.
OpenElsewhere(p, i) == \E q \in Processes \ {p} : pull[q].pc \in {"copy", "rename"} /\ pull[q].fd = i

\* curl: it creates or empties the file, or goes on behind its last block when it
\* was told to resume and there is one, whatever file that came from.  A missing
\* file comes as a page with success, and cannot be resumed.
Open(p) ==
    LET t == TempName(pull[p].spec.model)
        i == IF t \in DOMAIN dir THEN dir[t] ELSE Fresh
        have == IF pull[p].append /\ t \in DOMAIN dir THEN data[i] ELSE <<>>
    IN
    /\ pull[p].pc = "curl"
    /\ t \in DOMAIN dir \/ Free # {}
    /\ dir' = Bind(dir, t, i)
    /\ \/ /\ Put(i, have)
          /\ pull' = [pull EXCEPT ![p].pc = "copy", ![p].fd = i,
                                  ![p].at = Len(have), ![p].append = have # <<>>]
       \/ /\ have = <<>>
          /\ Put(i, Page)
          /\ pull' = [pull EXCEPT ![p].pc = "rename", ![p].fd = i]
    /\ writers' = [writers EXCEPT ![i] = (IF have = <<>> THEN {} ELSE @) \cup {pull[p].spec}]
    /\ crowded' = IF OpenElsewhere(p, i) THEN crowded \cup {i}
                  ELSE IF have = <<>> THEN crowded \ {i} ELSE crowded
    /\ UNCHANGED <<served, pulls, edits>>

\* A block behind the end leaves a hole.
WrittenAt(blocks, n, block) ==
    [i \in 1..IF n > Len(blocks) THEN n ELSE Len(blocks) |->
        IF i = n THEN block ELSE IF i <= Len(blocks) THEN blocks[i] ELSE "hole"]

\* The next block, at the process's own place or, when it resumes, at the end.
Receive(p) ==
    LET d == pull[p]
        block == Remote[d.spec][d.at + 1]
        old == data[d.fd]
    IN
    /\ d.pc = "copy" /\ d.at < Len(Remote[d.spec])
    /\ Put(d.fd, IF d.append THEN Append(old, block) ELSE WrittenAt(old, d.at + 1, block))
    /\ pull' = [pull EXCEPT ![p].at = @ + 1]
    /\ UNCHANGED <<dir, served, history, pulls, edits>>

\* Mutant: the exit code of curl is not looked at.
CurlEndsAnyhow(p) ==
    /\ pull[p].pc = "copy"
    /\ pull' = [pull EXCEPT ![p].pc = "rename"]
    /\ UNCHANGED <<dir, data, served, history, pulls, edits>>

\* curl succeeds with the last block, and when there is nothing behind the place
\* from which it resumes.
CurlEnds(p) ==
    /\ pull[p].pc = "copy" /\ pull[p].at >= Len(Remote[pull[p].spec])
    /\ pull' = [pull EXCEPT ![p].pc = "rename"]
    /\ UNCHANGED <<dir, data, served, history, pulls, edits>>

\* Mutant: the temporary file is copied over the model and removed.
RenameByCopy(p) ==
    LET t == TempName(pull[p].spec.model)
        f == FileName(pull[p].spec.model)
    IN
    /\ pull[p].pc = "rename" /\ t \in DOMAIN dir
    /\ IF f \in DOMAIN dir
       THEN Put(dir[f], data[dir[t]]) /\ dir' = Unbind(dir, t)
       ELSE dir' = Renamed(dir, t, f) /\ UNCHANGED data
    /\ pull' = [pull EXCEPT ![p].pc = "verify", ![p].fd = -1]
    /\ UNCHANGED <<served, history, pulls, edits>>

\* The temporary file takes the model's name; it may have been deleted.
Rename(p) ==
    LET t == TempName(pull[p].spec.model)
        f == FileName(pull[p].spec.model)
    IN
    /\ pull[p].pc = "rename"
    /\ IF t \in DOMAIN dir
       THEN /\ dir' = Renamed(dir, t, f)
            /\ pull' = [pull EXCEPT ![p].pc = "verify", ![p].fd = -1]
       ELSE /\ pull' = [pull EXCEPT ![p] = Idle]
            /\ UNCHANGED dir
    /\ UNCHANGED <<data, served, history, pulls, edits>>

\* The file is opened by its name, and removed by its name if it has no magic.
Verify(p) ==
    LET f == FileName(pull[p].spec.model)
        good == f \in DOMAIN dir /\ data[dir[f]] # <<>> /\ Head(data[dir[f]]) # "page"
    IN
    /\ pull[p].pc = "verify"
    /\ IF good \/ f \notin DOMAIN dir \/ data[dir[f]] = <<>> THEN UNCHANGED dir ELSE dir' = Unbind(dir, f)
    /\ pull' = [pull EXCEPT ![p] = IF good THEN [@ EXCEPT !.pc = "done"] ELSE Idle]
    /\ UNCHANGED <<data, served, history, pulls, edits>>

\* The answer is given.
Return(p) ==
    /\ pull[p].pc \in {"exists", "done"}
    /\ pull' = [pull EXCEPT ![p] = Idle]
    /\ UNCHANGED <<dir, data, served, history, pulls, edits>>

\* The download fails, or its process dies: what is on disk stays.
Fails(p) ==
    /\ pull[p].pc \in {"curl", "copy", "rename", "verify"}
    /\ pull' = [pull EXCEPT ![p] = Idle]
    /\ UNCHANGED <<dir, data, served, history, pulls, edits>>

FilesNext ==
    \/ \E a, b \in Asked : Copy(a, b)
    \/ \E n \in Asked : Delete(n)
    \/ \E p \in Processes :
         \/ \E s \in Specs : Start(p, s)
         \/ Open(p) \/ Receive(p) \/ CurlEnds(p) \/ Rename(p) \/ Verify(p) \/ Return(p) \/ Fails(p)

FilesSpec == FilesInit /\ [][FilesNext]_fileVars

-----------------------------------------------------------------------------
Delivering(p) == pull[p].pc = "rename" /\ pull'[p].pc = "verify"
Own(p, i)     == i = pull[p].fd
Pure(p, i)    == writers[i] = {pull[p].spec}

\* Every block is at the place it has in one of these files.
PiecesOf(S, blocks) ==
    \A i \in DOMAIN blocks : \E s \in S : i \in DOMAIN Remote[s] /\ blocks[i] = Remote[s][i]

\* What a download puts under a model's name, when the file it has written is still
\* the temporary one and no other download had it open at the same time: something
\* its check then removes, or at least as many blocks as were asked for, each in
\* its place in a file of this name that was downloaded into it - so that it is the
\* requested file, whole, when all attempts that wrote it were for that one.  This
\* however many attempts, for whichever repositories, failed or died before it,
\* and whatever is copied and deleted meanwhile.
PullDelivers ==
    [][\A p \in Processes : Delivering(p) =>
         LET s == pull[p].spec
             i == dir'[FileName(s.model)]
         IN  \/ ~Own(p, i) \/ i \in crowded
             \/ data[i] # <<>> /\ Head(data[i]) = "page"
             \/ /\ PiecesOf(writers[i], data[i]) /\ Len(data[i]) >= Len(Remote[s])
                /\ \A w \in writers[i] : w.model = s.model
                /\ Pure(p, i) => data[i] = Remote[s]]_fileVars

\* The requested file, or something the check removes, is what a download delivers
\* when the inode it renames is its own, is not crowded and was written by attempts
\* for this file only.  With one of the three left out TLC refutes it: the temporary
\* file of another repository is resumed, two processes write one at a time, and one
\* renames what the other has begun after its own was deleted.
Delivered(p) ==
    LET blocks == data[dir'[FileName(pull[p].spec.model)]]
    IN  blocks = Remote[pull[p].spec] \/ (blocks # <<>> /\ Head(blocks) = "page")
WhateverWroteIt ==
    [][\A p \in Processes : LET i == dir'[FileName(pull[p].spec.model)] IN
         Delivering(p) /\ Own(p, i) /\ i \notin crowded => Delivered(p)]_fileVars
WhateverElseHadItOpen ==
    [][\A p \in Processes : LET i == dir'[FileName(pull[p].spec.model)] IN
         Delivering(p) /\ Own(p, i) /\ Pure(p, i) => Delivered(p)]_fileVars
WhoeversItIs ==
    [][\A p \in Processes : LET i == dir'[FileName(pull[p].spec.model)] IN
         Delivering(p) /\ i \notin crowded /\ Pure(p, i) => Delivered(p)]_fileVars

\* A download that finds the model there finds the requested file, whole.
ExistingIsWhole ==
    \A p \in Processes : pull[p].pc = "exists" /\ FileName(pull[p].spec.model) \in DOMAIN dir
        => data[dir[FileName(pull[p].spec.model)]] = Remote[pull[p].spec]

\* No operation on the directory changes what the server has mapped, though the
\* model may be deleted, downloaded again or replaced under its name.
ServedIntact == data[served[1]] = served[2]

=============================================================================
