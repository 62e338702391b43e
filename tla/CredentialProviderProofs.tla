----------------------- MODULE CredentialProviderProofs -----------------------
(***************************************************************************)
(* Proofs about CredentialProvider, for every kind of node, every line of  *)
(* arguments a node's owner may have written and every number of           *)
(* rotations, faults and crashes.                                          *)
(***************************************************************************)
EXTENDS CredentialProvider, TLAPS

-----------------------------------------------------------------------------
(* The inductive invariant.                                                *)

\* Both keys have been read into a record before the second one is read again; that is
\* only done if the secret has separate keys.
ReadInv == At("key") => agent.read \in Keys /\ node.layout = "keys"

\* The arguments the agent is going to add name files it has just written; outside
\* updateKubeletArguments there are none.
FlagsInv ==
    agent # None =>
        /\ agent.flags \subseteq {"config", "bin dir"} /\ \A f \in agent.flags : files[f] = "whole"
        /\ agent.pc \notin {"bins", "args"} => agent.flags = {}
        /\ agent.pc = "bins" => "bin dir" \notin agent.flags

\* The node has credentials once the agent is past UpdateAWSCredentials, and whenever a
\* line, the kubelet or the staged settings name the provider.
CredsInv ==
    /\ (agent # None /\ agent.pc \in {"config", "bins", "args", "provider", "commit", "watch", "watching"})
          => creds # None
    /\ At("apply") => staged.creds # None
    /\ staged.provider => creds # None
    /\ \A p \in Paths : Has(args[p], "config") => creds # None
    /\ Has(kubelet, "config") => creds # None

\* Credentials are what was copied of a secret, on the node, in the agent's hands and in
\* the staged settings; or, on a Linux node, a file that the agent has been cut off from
\* and has not come back to.
Waiting == creds = Torn /\ (agent = None \/ agent.pc \in {"id", "key", "copy"})
CopiedInv ==
    /\ creds # None => Copied(creds) \/ (Linux /\ Waiting)
    /\ At("copy") /\ node.layout = "keys" => Copied(agent.read)
    /\ staged.creds # None => Copied(staged.creds)
    /\ At("apply") => ~Linux

CInv == ReadInv /\ FlagsInv /\ CredsInv /\ CopiedInv /\ FlagsOnce
Inv == TypeOK /\ CInv

-----------------------------------------------------------------------------
(* Lines of arguments.                                                     *)

LEMMA EmptyLine == 1..Len(<< >>) = {}
  <1>1. Len(<< >>) = 0
    OBVIOUS
  <1>2. 1..0 = {}
    OBVIOUS
  <1> QED
    BY <1>1, <1>2

LEMMA UnlessFacts ==
    ASSUME NEW line \in Seq(Flags), NEW flag \in Flags, NEW condition \in BOOLEAN
    PROVE  /\ Unless(condition, line, flag) \in Seq(Flags)
           /\ \A f : Has(Unless(condition, line, flag), f) <=> Has(line, f) \/ (~condition /\ f = flag)
  BY DEF Unless, Has

LEMMA AppendFacts ==
    ASSUME NEW line \in Seq(Flags), NEW flag \in Flags
    PROVE  /\ Append(line, flag)[Len(line) + 1] = flag
           /\ \A i \in 1..Len(Append(line, flag)) :
                 (i \in 1..Len(line) /\ Append(line, flag)[i] = line[i]) \/ i = Len(line) + 1
  OBVIOUS

\* Adding an argument that is not there.
LEMMA AppendOnce ==
    ASSUME NEW line \in Seq(Flags), NEW flag \in Flags, Once(line),
           flag \in {"config", "custom config"} => ~Has(line, "config") /\ ~Has(line, "custom config"),
           flag = "bin dir" => ~Has(line, "bin dir")
    PROVE  Once(Append(line, flag))
  <1> DEFINE new == Append(line, flag)
             n == Len(line) + 1
  <1>1. /\ new[n] = flag
        /\ \A i \in 1..Len(new) : (i \in 1..Len(line) /\ new[i] = line[i]) \/ i = n
    BY AppendFacts
  <1> HIDE DEF new, n
  <1>2. \A i, j \in Pointers(new) : i = j
    BY <1>1 DEF Once, Pointers, Has
  <1>3. \A i, j \in BinDirs(new) : i = j
    BY <1>1 DEF Once, BinDirs, Has
  <1> QED
    BY <1>2, <1>3 DEF Once, new

LEMMA UnlessOnce ==
    ASSUME NEW line \in Seq(Flags), NEW flag \in Flags, NEW condition \in BOOLEAN, Once(line),
           ~condition /\ flag \in {"config", "custom config"} =>
               ~Has(line, "config") /\ ~Has(line, "custom config"),
           ~condition /\ flag = "bin dir" => ~Has(line, "bin dir")
    PROVE  Once(Unless(condition, line, flag))
  <1>1. CASE condition
    BY <1>1 DEF Unless
  <1>2. CASE ~condition
    BY <1>2, AppendOnce DEF Unless
  <1> QED
    BY <1>1, <1>2

\* updateKubeletArguments adds nothing twice, and only what the agent has ready.
LEMMA UpdateFacts ==
    ASSUME NEW line \in Seq(Flags)
    PROVE  /\ UpdateKubeletArguments(line) \in Seq(Flags)
           /\ Once(line) => Once(UpdateKubeletArguments(line))
           /\ \A f : Has(UpdateKubeletArguments(line), f) =>
                  Has(line, f) \/ (f \in {"config", "bin dir"} /\ f \in agent.flags)
  <1> DEFINE cond == Has(line, "config") \/ Has(line, "custom config") \/ "config" \notin agent.flags
             half == Unless(cond, line, "config")
             dirs == Has(line, "bin dir") \/ "bin dir" \notin agent.flags
  <1>1. UpdateKubeletArguments(line) = Unless(dirs, half, "bin dir")
    BY DEF UpdateKubeletArguments, Unless
  <1>2. cond \in BOOLEAN /\ dirs \in BOOLEAN /\ "config" \in Flags /\ "bin dir" \in Flags
    BY DEF Flags
  <1>3. /\ ~cond => ~Has(line, "config") /\ ~Has(line, "custom config") /\ "config" \in agent.flags
        /\ ~dirs => ~Has(line, "bin dir") /\ "bin dir" \in agent.flags
    OBVIOUS
  <1> HIDE DEF cond, dirs
  <1>4. half \in Seq(Flags) /\ \A f : Has(half, f) <=> Has(line, f) \/ (~cond /\ f = "config")
    BY <1>2, UnlessFacts
  <1>5. Once(line) => Once(half)
    BY <1>2, <1>3, UnlessOnce
  <1> HIDE DEF half
  <1>6. /\ Unless(dirs, half, "bin dir") \in Seq(Flags)
        /\ \A f : Has(Unless(dirs, half, "bin dir"), f) <=> Has(half, f) \/ (~dirs /\ f = "bin dir")
    BY <1>2, <1>4, UnlessFacts
  <1>7. ~dirs => ~Has(half, "bin dir")
    <2>1. Has(half, "bin dir") <=> Has(line, "bin dir") \/ (~cond /\ "bin dir" = "config")
      BY <1>4
    <2> QED
      BY <1>3, <2>1
  <1>8. Once(half) => Once(Unless(dirs, half, "bin dir"))
    BY <1>2, <1>4, <1>7, UnlessOnce
  <1> QED
    BY <1>1, <1>3, <1>4, <1>5, <1>6, <1>8

-----------------------------------------------------------------------------
(* What several steps have in common.                                      *)

LEMMA FaultType ==
    ASSUME Inv, UNCHANGED faults \/ \E k \in {"fatal", "ignored"} : Fault(k)
    PROVE  /\ faults' \in [{"fatal", "ignored"} -> Nat]
           /\ faults["ignored"] > 0 => faults'["ignored"] > 0
           /\ Fault("ignored") => faults'["ignored"] > 0
  <1>1. faults \in [{"fatal", "ignored"} -> Nat]
    BY DEF Inv, TypeOK
  <1>2. CASE UNCHANGED faults
    BY <1>1, <1>2 DEF Fault
  <1>3. CASE \E k \in {"fatal", "ignored"} : Fault(k)
    BY <1>1, <1>3 DEF Fault
  <1> QED
    BY <1>2, <1>3

\* What has been copied remains so.
LEMMA CopiedStays ==
    ASSUME UNCHANGED node, faults["ignored"] > 0 => faults'["ignored"] > 0, NEW c, Copied(c)
    PROVE  Copied(c)'
  BY DEF Copied

\* The agent goes on to another step.
LEMMA AgentMoves ==
    ASSUME NEW r \in Agents, NEW pc \in Pcs
    PROVE  /\ [r EXCEPT !.pc = pc] \in Agents
           /\ [r EXCEPT !.pc = pc].pc = pc /\ [r EXCEPT !.pc = pc].flags = r.flags
           /\ [r EXCEPT !.pc = pc].read = r.read /\ [r EXCEPT !.pc = pc].starting = r.starting
  BY DEF Agents

\* Steps that only read: the agent moves on, and the node is as it was.
LEMMA AgentAlone ==
    ASSUME Inv, UNCHANGED <<node, creds, files, args, staged, kubelet, crashes>>,
           mounted' \in Versions, watched' \in BOOLEAN, event' \in BOOLEAN,
           faults' \in [{"fatal", "ignored"} -> Nat],
           agent' \in Agents, agent'.flags = {}, agent'.pc \in {"id", "key", "copy", "watch", "watching"},
           faults["ignored"] > 0 => faults'["ignored"] > 0,
           agent'.pc \in {"watch", "watching"} => creds # None /\ agent # None /\ agent.pc \in {"watch", "watching"},
           agent'.pc = "key" => agent'.read \in Keys /\ node.layout = "keys",
           agent'.pc = "copy" /\ node.layout = "keys" => Copied(agent.read)'
    PROVE  Inv'
  <1>1. TypeOK'
    BY DEF Inv, TypeOK
  <1>2. ReadInv' /\ FlagsInv'
    BY DEF ReadInv, FlagsInv, At
  <1>3. CredsInv' /\ FlagsOnce'
    BY DEF Inv, CInv, CredsInv, FlagsOnce, At
  <1>4. CopiedInv'
    <2>1. creds # None => Copied(creds)' \/ (Linux /\ creds = Torn)
      BY CopiedStays DEF Inv, CInv, CopiedInv, Waiting
    <2>2. creds = Torn /\ agent' # None /\ agent'.pc \in {"watch", "watching"} => Copied(creds)'
      BY CopiedStays DEF Inv, CInv, CopiedInv, Waiting, CredsInv
    <2>3. staged.creds # None => Copied(staged.creds)'
      BY CopiedStays DEF Inv, CInv, CopiedInv
    <2>4. At("copy")' /\ node.layout = "keys" => Copied(agent.read)'
      BY DEF At
    <2> QED
      BY <2>1, <2>2, <2>3, <2>4 DEF CopiedInv, Waiting, Linux, At
  <1> QED
    BY <1>1, <1>2, <1>3, <1>4 DEF Inv, CInv

\* The agent ends, perhaps in the middle of writing a file.
LEMMA Ended ==
    ASSUME Inv, Fatal, UNCHANGED <<node, mounted, staged, kubelet>>, creds' \in {creds, Torn},
           files' \in [{"config", "bin dir"} -> FileStates], args' \in [Paths -> Seq(Flags)],
           \A p \in Paths : args'[p] \in {args[p], << >>},
           creds' # creds => Linux,
           faults' \in [{"fatal", "ignored"} -> Nat], crashes' \in Nat,
           faults["ignored"] > 0 => faults'["ignored"] > 0
    PROVE  Inv'
  <1>1. Torn \in Contents /\ Torn # None
    BY NoneAssumption DEF Contents
  <1>2. TypeOK'
    BY <1>1 DEF Inv, TypeOK, Fatal
  <1>3. ReadInv' /\ FlagsInv'
    BY DEF ReadInv, FlagsInv, At, Fatal
  <1>4. \A f : ~Has(<< >>, f)
    BY EmptyLine DEF Has
  <1>5. Once(<< >>)
    BY EmptyLine DEF Once, Pointers, BinDirs
  <1>6. creds # None => creds' # None
    BY <1>1
  <1>7. CredsInv'
    BY <1>4, <1>6 DEF Inv, CInv, CredsInv, At, Fatal
  <1>9. CopiedInv'
    <2>1. creds # None /\ creds' = creds => Copied(creds)' \/ (Linux /\ creds = Torn)
      BY CopiedStays DEF Inv, CInv, CopiedInv, Waiting
    <2>2. staged.creds # None => Copied(staged.creds)'
      BY CopiedStays DEF Inv, CInv, CopiedInv
    <2> QED
      BY <2>1, <2>2 DEF CopiedInv, Waiting, Linux, At, Fatal
  <1>8. FlagsOnce'
    BY <1>5 DEF Inv, CInv, FlagsOnce
  <1> QED
    BY <1>2, <1>3, <1>7, <1>8, <1>9 DEF Inv, CInv

-----------------------------------------------------------------------------
(* The steps.                                                              *)

LEMMA RotateStep == ASSUME Inv, Rotate PROVE Inv'
  <1>1. mounted \in 0..MaxRotations /\ mounted < MaxRotations /\ mounted' = mounted + 1
    BY DEF Inv, TypeOK, Rotate, Versions
  <1>2. mounted' \in Versions
    BY <1>1, BoundsAssumption DEF Versions
  <1>3. event' \in BOOLEAN
    BY DEF Rotate
  <1>4. TypeOK'
    BY <1>2, <1>3 DEF Inv, TypeOK, Rotate
  <1>5. CInv'
    BY DEF Inv, CInv, ReadInv, FlagsInv, CredsInv, CopiedInv, Copied, Waiting, Linux, FlagsOnce, At, Rotate
  <1> QED
    BY <1>4, <1>5 DEF Inv

LEMMA StartStep == ASSUME Inv, Start PROVE Inv'
  <1> DEFINE r == [pc |-> "id", read |-> Empty, starting |-> TRUE, todo |-> node.paths, flags |-> {}]
  <1>1. node.paths \subseteq Paths
    BY NodesAssumption DEF Inv, TypeOK, NodeKinds
  <1>2. Empty \in Contents
    BY DEF Contents
  <1>3. r \in Agents /\ r.pc = "id" /\ r.flags = {}
    BY <1>1, <1>2 DEF Agents, Pcs
  <1>4. agent' = r
    BY DEF Start
  <1> HIDE DEF r
  <1> QED
    BY <1>3, <1>4, AgentAlone DEF Start, Inv, TypeOK

\* GetAwsConfigPath, and the watcher.
LEMMA ReadStep ==
    ASSUME Inv, ConfigFound \/ ReadId \/ ReadKey \/ ReadFails \/ Watch \/ HandleEvent
    PROVE  Inv'
  <1>1. agent \in Agents
    BY DEF Inv, TypeOK, ConfigFound, ReadId, ReadKey, ReadFails, Watch, HandleEvent, At
  <1>2. agent.pc \in {"id", "key", "watch", "watching"}
    BY DEF ConfigFound, ReadId, ReadKey, ReadFails, Watch, HandleEvent, At
  <1>3. agent.flags = {}
    BY <1>1, <1>2, NoneAssumption DEF Inv, CInv, FlagsInv
  <1>4. /\ mounted \in Versions /\ watched \in BOOLEAN /\ event \in BOOLEAN
        /\ faults \in [{"fatal", "ignored"} -> Nat]
    BY DEF Inv, TypeOK
  <1>5. CASE ConfigFound \/ HandleEvent
    <2>1. PICK pc \in {"copy", "id"} :
             agent' = [agent EXCEPT !.pc = pc] /\ (pc = "copy" => node.layout = "config")
      BY <1>5 DEF ConfigFound, HandleEvent, Goto
    <2>2. agent' \in Agents /\ agent'.pc = pc /\ agent'.flags = {}
      <3>1. pc \in Pcs
        BY DEF Pcs
      <3> QED
        BY <1>1, <1>3, <2>1, <3>1, AgentMoves
    <2>3. /\ UNCHANGED <<node, mounted, creds, files, args, staged, kubelet, crashes, faults, watched>>
          /\ event' \in BOOLEAN
      BY <1>4, <1>5 DEF ConfigFound, HandleEvent, Goto, Reading
    <2>4. agent'.pc = "copy" => node.layout = "config"
      BY <2>1, <2>2
    <2> QED
      BY <1>4, <2>2, <2>3, <2>4, AgentAlone
  <1>6. CASE ReadId
    <2> DEFINE both == [id |-> mounted, key |-> mounted]
    <2>1. both \in Keys /\ both \in Contents
      BY <1>4 DEF Contents, Keys
    <2>2. agent' = [agent EXCEPT !.pc = "key", !.read = both]
      BY <1>6 DEF ReadId
    <2> HIDE DEF both
    <2>3. agent' \in Agents /\ agent'.pc = "key" /\ agent'.flags = {} /\ agent'.read = both
      BY <1>1, <1>3, <2>1, <2>2 DEF Agents, Pcs
    <2> QED
      BY <1>4, <1>6, <2>1, <2>3, AgentAlone DEF ReadId, Reading
  <1>7. CASE ReadKey
    <2> DEFINE both == [agent.read EXCEPT !.key = mounted]
    <2>1. agent.read \in Keys
      BY <1>7 DEF ReadKey, Inv, CInv, ReadInv
    <2>2. both \in Contents /\ both \in Keys
      BY <1>4, <2>1 DEF Contents, Keys
    <2>3. agent' = [agent EXCEPT !.pc = "copy", !.read = both]
      BY <1>1, <1>7 DEF ReadKey, Agents
    <2> HIDE DEF both
    <2>4. agent' \in Agents /\ agent'.pc = "copy" /\ agent'.flags = {} /\ agent'.read = both
      BY <1>1, <1>3, <2>2, <2>3 DEF Agents, Pcs
    <2>5. Copied(agent.read)'
      BY <2>2, <2>4 DEF Copied
    <2> QED
      BY <1>4, <1>7, <2>4, <2>5, AgentAlone DEF ReadKey, Reading
  <1>8. CASE ReadFails
    <2>1. agent' = [agent EXCEPT !.pc = "copy", !.read = Empty]
      BY <1>8 DEF ReadFails
    <2>2. Empty \in Contents
      BY DEF Contents
    <2>3. agent' \in Agents /\ agent'.pc = "copy" /\ agent'.flags = {}
      BY <1>1, <1>3, <2>1, <2>2 DEF Agents, Pcs
    <2>4. faults' \in [{"fatal", "ignored"} -> Nat] /\ faults'["ignored"] > 0
      BY <1>8, FaultType DEF ReadFails
    <2>5. node.layout = "keys" /\ agent'.read = Empty
      BY <1>1, <1>8, <2>1 DEF ReadFails, Inv, CInv, ReadInv, Agents
    <2>6. Copied(agent.read)'
      BY <1>8, <2>4, <2>5 DEF Copied, ReadFails, Reading
    <2> QED
      BY <1>4, <1>8, <2>3, <2>4, <2>6, AgentAlone DEF ReadFails, Reading
  <1>9. CASE Watch
    <2>1. agent' = [agent EXCEPT !.pc = "watching", !.starting = FALSE]
      BY <1>9 DEF Watch
    <2>2. agent' \in Agents /\ agent'.pc = "watching" /\ agent'.flags = {}
      BY <1>1, <1>3, <2>1 DEF Agents, Pcs
    <2>3. creds # None /\ agent # None /\ agent.pc = "watch"
      BY <1>9 DEF Watch, At, Inv, CInv, CredsInv
    <2> QED
      BY <1>4, <1>9, <2>2, <2>3, AgentAlone DEF Watch
  <1> QED
    BY <1>5, <1>6, <1>7, <1>8, <1>9

\* Whatever ends the agent.
LEMMA EndStep ==
    ASSUME Inv,
           \/ CopyCredentialsFails \/ RequestFails \/ Crash
           \/ \E p \in Paths : WriteArgsFails(p)
    PROVE  Inv'
  <1>1. /\ files \in [{"config", "bin dir"} -> FileStates] /\ args \in [Paths -> Seq(Flags)]
    BY DEF Inv, TypeOK
  <1>2. Fatal /\ UNCHANGED <<node, mounted, staged, kubelet>>
    BY DEF CopyCredentialsFails, RequestFails, Crash, WriteArgsFails
  <1>3. creds' \in {creds, Torn} /\ (creds' # creds => Linux)
    BY DEF CopyCredentialsFails, RequestFails, Crash, WriteArgsFails
  <1>4. files' \in [{"config", "bin dir"} -> FileStates]
    <2>1. CASE UNCHANGED files
      BY <1>1, <2>1
    <2>2. CASE Crash
      <3>1. /\ At("config") => files' \in {files, [files EXCEPT !["config"] = "torn"]}
            /\ At("bins") => files' \in {files, [files EXCEPT !["bin dir"] = "torn"]}
            /\ ~At("config") /\ ~At("bins") => files' \in {files}
        BY <2>2 DEF Crash, At
      <3> QED
        BY <1>1, <3>1 DEF FileStates
    <2> QED
      BY <2>1, <2>2 DEF CopyCredentialsFails, RequestFails, WriteArgsFails
  <1>5. \E p \in Paths : args' \in {args, [args EXCEPT ![p] = << >>]}
    BY DEF CopyCredentialsFails, RequestFails, Crash, WriteArgsFails, Paths
  <1>6. args' \in [Paths -> Seq(Flags)] /\ \A p \in Paths : args'[p] \in {args[p], << >>}
    <2>1. << >> \in Seq(Flags)
      OBVIOUS
    <2> QED
      BY <1>1, <1>5, <2>1
  <1>7. faults' \in [{"fatal", "ignored"} -> Nat] /\ (faults["ignored"] > 0 => faults'["ignored"] > 0)
    BY FaultType DEF CopyCredentialsFails, RequestFails, Crash, WriteArgsFails
  <1>8. crashes' \in Nat
    <2>1. crashes' = crashes \/ crashes' = crashes + 1
      BY DEF CopyCredentialsFails, RequestFails, Crash, WriteArgsFails
    <2>2. crashes \in Nat
      BY DEF Inv, TypeOK
    <2> QED
      BY <2>1, <2>2
  <1> QED
    BY <1>2, <1>3, <1>4, <1>6, <1>7, <1>8, Ended

\* What the agent is about to use as the node's credentials.
LEMMA SourceType ==
    ASSUME Inv, At("copy")
    PROVE  Source \in Contents /\ Source # None /\ Copied(Source)
  <1>1. agent \in Agents /\ mounted \in Versions
    BY DEF Inv, TypeOK, At
  <1>2. agent.read \in Contents
    BY <1>1 DEF Agents
  <1>3. [id |-> mounted, key |-> mounted] \in Keys
    BY <1>1 DEF Keys
  <1>4. Source \in Contents
    BY <1>2, <1>3 DEF Source, Contents
  <1>5. Copied(Source)
    <2>1. CASE node.layout = "keys"
      BY <2>1 DEF Source, Inv, CInv, CopiedInv
    <2>2. CASE node.layout # "keys"
      <3>1. node.layout \in {"config", "keys"}
        BY NodesAssumption DEF Inv, TypeOK, NodeKinds
      <3> QED
        BY <1>3, <2>2, <3>1 DEF Source, Copied
    <2> QED
      BY <2>1, <2>2
  <1> QED
    BY <1>4, <1>5, NoneAssumption

\* The agent moves on within the start-up, to a step where it has no arguments to add.
LEMMA MovesOn ==
    ASSUME Inv, agent # None, NEW pc \in Pcs, Goto(pc), agent.flags = {}, pc # "key",
           UNCHANGED <<node, mounted, files, args, faults, crashes>>,
           creds' \in Contents \cup {None}, kubelet' \in Seq(Flags),
           staged' \in [creds : Contents \cup {None}, provider : BOOLEAN],
           creds # None => creds' # None,
           pc \in {"config", "bins", "args", "provider", "commit", "watch", "watching"} => creds' # None,
           pc = "apply" => staged'.creds # None, staged'.provider => creds' # None,
           Has(kubelet', "config") => creds' # None, pc # "copy", pc = "apply" => ~Linux,
           creds' # None => Copied(creds'), staged'.creds # None => Copied(staged'.creds)
    PROVE  Inv'
  <1>1. agent \in Agents /\ agent' = [agent EXCEPT !.pc = pc] /\ UNCHANGED <<watched, event>>
    BY DEF Inv, TypeOK, Goto
  <1>2. agent' \in Agents /\ agent'.pc = pc /\ agent'.flags = {}
    BY <1>1, AgentMoves
  <1>3. TypeOK'
    BY <1>1, <1>2 DEF Inv, TypeOK
  <1>4. ReadInv' /\ FlagsInv'
    BY <1>2 DEF ReadInv, FlagsInv, At
  <1>5. CredsInv'
    BY <1>2 DEF Inv, CInv, CredsInv, At
  <1>6. FlagsOnce'
    BY DEF Inv, CInv, FlagsOnce
  <1>7. CopiedInv'
    BY <1>2 DEF CopiedInv, Copied, Linux, At
  <1> QED
    BY <1>3, <1>4, <1>5, <1>6, <1>7 DEF Inv, CInv

\* UpdateAWSCredentials of both systems, and CommitChanges.
LEMMA CredentialStep ==
    ASSUME Inv, CopyCredentials \/ PatchCredentials \/ ApplyCredentials \/ PatchProvider
                \/ CommitChanges \/ RestartKubelet
    PROVE  Inv'
  <1>1. agent # None /\ agent \in Agents /\ agent.pc \in {"copy", "apply", "provider", "commit"}
    BY DEF Inv, TypeOK, CopyCredentials, PatchCredentials, ApplyCredentials, PatchProvider,
           CommitChanges, RestartKubelet, At
  <1>2. agent.flags = {}
    BY <1>1 DEF Inv, CInv, FlagsInv
  <1>3. /\ creds \in Contents \cup {None} /\ kubelet \in Seq(Flags) /\ args \in [Paths -> Seq(Flags)]
        /\ staged \in [creds : Contents \cup {None}, provider : BOOLEAN] /\ node \in Nodes
    BY DEF Inv, TypeOK
  <1>4. /\ (staged.provider => creds # None) /\ (Has(kubelet, "config") => creds # None)
        /\ \A p \in Paths : Has(args[p], "config") => creds # None
        /\ agent.pc \in {"provider", "commit"} => creds # None
        /\ agent.pc = "apply" => staged.creds # None
    BY <1>1 DEF Inv, CInv, CredsInv, At
  <1>5. staged.creds \in Contents \cup {None} /\ staged.provider \in BOOLEAN
    BY <1>3
  <1>13. /\ creds # None /\ (~Linux \/ agent.pc \in {"provider", "commit"}) => Copied(creds)
         /\ staged.creds # None => Copied(staged.creds)
         /\ agent.pc = "apply" => ~Linux
    BY <1>1 DEF Inv, CInv, CopiedInv, Waiting, At
  <1>6. AfterCredentials => \E pc \in {"watching", "config", "provider"} : Goto(pc)
    BY DEF AfterCredentials
  <1>7. {"watching", "config", "provider", "apply", "commit", "watch"} \subseteq Pcs
    BY DEF Pcs
  <1>8. CASE CopyCredentials
    <2>1. creds' \in Contents /\ creds' # None /\ Copied(creds')
      BY <1>8, SourceType DEF CopyCredentials
    <2>2. PICK pc \in {"watching", "config", "provider"} : Goto(pc)
      BY <1>6, <1>8 DEF CopyCredentials
    <2>3. UNCHANGED <<node, mounted, files, args, staged, kubelet, faults, crashes>>
      BY <1>8 DEF CopyCredentials
    <2> QED
      BY <1>1, <1>2, <1>3, <1>4, <1>7, <1>13, <2>1, <2>2, <2>3, MovesOn
  <1>9. CASE PatchCredentials
    <2>1. staged' = [staged EXCEPT !.creds = Source] /\ Source \in Contents /\ Source # None
          /\ Copied(Source) /\ ~Linux
      BY <1>9, SourceType DEF PatchCredentials
    <2>2. /\ staged' \in [creds : Contents \cup {None}, provider : BOOLEAN]
          /\ staged'.creds = Source /\ staged'.provider = staged.provider
      BY <1>3, <2>1
    <2>3. Goto("apply") /\ UNCHANGED <<node, mounted, creds, files, args, kubelet, faults, crashes>>
      BY <1>9 DEF PatchCredentials
    <2> QED
      BY <1>1, <1>2, <1>3, <1>4, <1>7, <1>13, <2>1, <2>2, <2>3, MovesOn
  <1>10. CASE PatchProvider
    <2>1. staged' = [staged EXCEPT !.provider = TRUE] /\ creds # None
      BY <1>4, <1>10 DEF PatchProvider, At
    <2>2. staged' \in [creds : Contents \cup {None}, provider : BOOLEAN] /\ staged'.creds = staged.creds
      BY <1>3, <2>1
    <2>4. Copied(creds)
      BY <1>10, <1>13, <2>1 DEF PatchProvider, At
    <2>3. Goto("commit") /\ UNCHANGED <<node, mounted, creds, files, args, kubelet, faults, crashes>>
      BY <1>10 DEF PatchProvider
    <2> QED
      BY <1>1, <1>2, <1>3, <1>7, <1>13, <2>1, <2>2, <2>3, <2>4, MovesOn
  <1>11. CASE ApplyCredentials \/ CommitChanges
    <2>1. PICK pc \in {"watching", "config", "provider", "watch"} : Goto(pc)
      BY <1>6, <1>11 DEF ApplyCredentials, CommitChanges
    <2>2. /\ creds' = IF staged.creds = None THEN creds ELSE staged.creds
          /\ kubelet' = IF staged.provider THEN <<"config", "bin dir">> ELSE kubelet
          /\ staged' = [creds |-> None, provider |-> FALSE]
          /\ UNCHANGED <<node, mounted, files, args, faults, crashes>>
      BY <1>11 DEF ApplyCredentials, CommitChanges, Apply
    <2>3. staged.creds # None \/ creds # None
      BY <1>4, <1>11 DEF ApplyCredentials, CommitChanges, At
    <2>4. creds' # None /\ creds' \in Contents
      BY <1>3, <1>5, <2>2, <2>3, NoneAssumption
    <2>7. Copied(creds')
      BY <1>11, <1>13, <2>2, <2>3 DEF ApplyCredentials, CommitChanges, At
    <2>5. kubelet' \in Seq(Flags)
      <3>1. <<"config", "bin dir">> \in Seq(Flags)
        BY DEF Flags
      <3> QED
        BY <1>3, <2>2, <3>1
    <2>6. /\ staged' \in [creds : Contents \cup {None}, provider : BOOLEAN]
          /\ ~staged'.provider /\ staged'.creds = None
      BY <2>2
    <2> QED
      BY <1>1, <1>2, <1>7, <2>1, <2>2, <2>4, <2>5, <2>6, <2>7, MovesOn
  <1>12. CASE RestartKubelet
    <2>1. kubelet' = args[node.reads] /\ creds # None
      BY <1>4, <1>12 DEF RestartKubelet, At
    <2>2. node.reads \in Paths
      BY <1>3, NodesAssumption DEF NodeKinds
    <2>3. kubelet' \in Seq(Flags)
      BY <1>3, <2>1, <2>2
    <2>5. Copied(creds)
      BY <1>12, <1>13, <2>1 DEF RestartKubelet, At
    <2>4. Goto("watch") /\ UNCHANGED <<node, mounted, creds, files, args, staged, faults, crashes>>
      BY <1>12 DEF RestartKubelet
    <2> QED
      BY <1>1, <1>2, <1>3, <1>4, <1>7, <1>13, <2>1, <2>3, <2>4, <2>5, MovesOn
  <1> QED
    BY <1>8, <1>9, <1>10, <1>11, <1>12

\* createConfig and copyBinaries: an argument is ready only when its file is.
LEMMA FileStep ==
    ASSUME Inv, NEW ok \in BOOLEAN, WriteConfig(ok) \/ CopyBinaries(ok)
    PROVE  Inv'
  <1>1. agent # None /\ agent \in Agents /\ agent.pc \in {"config", "bins"}
    BY DEF Inv, TypeOK, WriteConfig, CopyBinaries, At
  <1>2. creds # None
    BY <1>1 DEF Inv, CInv, CredsInv
  <1>3. UNCHANGED <<node, mounted, watched, event, creds, args, staged, kubelet, crashes>>
    BY DEF WriteConfig, CopyBinaries
  <1>4. faults' \in [{"fatal", "ignored"} -> Nat] /\ (faults["ignored"] > 0 => faults'["ignored"] > 0)
    <2>1. UNCHANGED faults \/ Fault("ignored")
      BY DEF WriteConfig, CopyBinaries
    <2> QED
      BY <2>1, FaultType
  <1>5. /\ files \in [{"config", "bin dir"} -> FileStates]
        /\ agent.flags \subseteq {"config", "bin dir"} /\ \A f \in agent.flags : files[f] = "whole"
        /\ agent.pc = "config" => agent.flags = {}
        /\ agent.pc = "bins" => "bin dir" \notin agent.flags
    BY <1>1 DEF Inv, TypeOK, CInv, FlagsInv
  <1>6. PICK g \in {"config", "bin dir"}, pc \in {"bins", "args"} :
          /\ (g = "config" /\ pc = "bins" /\ agent.pc = "config")
                \/ (g = "bin dir" /\ pc = "args" /\ agent.pc = "bins")
          /\ \E f \in IF ok THEN {"whole"} ELSE {files[g], "torn"} : files' = [files EXCEPT ![g] = f]
          /\ agent' = [agent EXCEPT !.pc = pc, !.flags = IF ok THEN @ \cup {g} ELSE @]
    <2>1. CASE WriteConfig(ok)
      BY <2>1 DEF WriteConfig, CreateConfig, At
    <2>2. CASE CopyBinaries(ok)
      BY <2>2 DEF CopyBinaries, At
    <2> QED
      BY <2>1, <2>2
  <1>7. PICK f \in FileStates : files' = [files EXCEPT ![g] = f] /\ (ok => f = "whole")
    BY <1>5, <1>6 DEF FileStates
  <1>8. files' \in [{"config", "bin dir"} -> FileStates]
    BY <1>5, <1>7
  <1> DEFINE flags == IF ok THEN agent.flags \cup {g} ELSE agent.flags
  <1>9. flags \subseteq {"config", "bin dir"} /\ flags \subseteq Flags
    BY <1>5 DEF Flags
  <1>10. agent' = [agent EXCEPT !.pc = pc, !.flags = flags]
    BY <1>1, <1>6 DEF Agents
  <1>11. /\ \A h \in flags : files'[h] = "whole"
         /\ pc = "bins" => "bin dir" \notin flags
    BY <1>5, <1>6, <1>7
  <1> HIDE DEF flags
  <1>12. agent' \in Agents /\ agent'.pc = pc /\ agent'.flags = flags
    BY <1>1, <1>9, <1>10 DEF Agents, Pcs
  <1>13. TypeOK'
    BY <1>3, <1>4, <1>8, <1>12 DEF Inv, TypeOK
  <1>14. ReadInv' /\ FlagsInv'
    BY <1>9, <1>11, <1>12 DEF ReadInv, FlagsInv, At
  <1>15. CredsInv'
    BY <1>2, <1>3, <1>12 DEF Inv, CInv, CredsInv, At
  <1>16. FlagsOnce'
    BY <1>3 DEF Inv, CInv, FlagsOnce
  <1>17. CopiedInv'
    <2>1. Copied(creds)
      BY <1>1, <1>2 DEF Inv, CInv, CopiedInv, Waiting
    <2>2. Copied(creds)'
      BY <1>3, <1>4, <2>1, CopiedStays
    <2>3. staged.creds # None => Copied(staged.creds)'
      BY <1>3, <1>4, CopiedStays DEF Inv, CInv, CopiedInv
    <2> QED
      BY <1>3, <1>12, <2>2, <2>3 DEF CopiedInv, At
  <1> QED
    BY <1>13, <1>14, <1>15, <1>16, <1>17 DEF Inv, CInv

LEMMA ArgsStep == ASSUME Inv, NEW p \in Paths, WriteArgs(p) PROVE Inv'
  <1>1. agent # None /\ agent \in Agents /\ agent.pc = "args" /\ args \in [Paths -> Seq(Flags)]
    BY DEF Inv, TypeOK, WriteArgs, At
  <1>2. creds # None
    BY <1>1 DEF Inv, CInv, CredsInv
  <1>3. UNCHANGED <<node, mounted, watched, event, creds, files, staged, kubelet, faults, crashes>>
    BY DEF WriteArgs
  <1>4. args' = [args EXCEPT ![p] = UpdateKubeletArguments(args[p])]
    BY DEF WriteArgs, UpdateConfigFile
  <1>5. /\ UpdateKubeletArguments(args[p]) \in Seq(Flags)
        /\ Once(args[p]) => Once(UpdateKubeletArguments(args[p]))
    BY <1>1, UpdateFacts
  <1>6. args' \in [Paths -> Seq(Flags)] /\ FlagsOnce'
    BY <1>1, <1>4, <1>5 DEF Inv, CInv, FlagsOnce
  <1>7. PICK pc \in {"commit", "config"} :
           agent' = [agent EXCEPT !.pc = pc, !.todo = @ \ {p}, !.flags = {}]
    BY DEF WriteArgs
  <1>8. agent' \in Agents /\ agent'.pc = pc /\ agent'.flags = {}
    BY <1>1, <1>7 DEF Agents, Pcs
  <1>9. TypeOK'
    BY <1>3, <1>6, <1>8 DEF Inv, TypeOK
  <1>10. ReadInv' /\ FlagsInv'
    BY <1>8 DEF ReadInv, FlagsInv, At
  <1>11. CredsInv'
    BY <1>2, <1>3, <1>8 DEF Inv, CInv, CredsInv, At
  <1>12. CopiedInv'
    <2>1. Copied(creds)
      BY <1>1, <1>2 DEF Inv, CInv, CopiedInv, Waiting
    <2> QED
      BY <1>3, <1>8, <2>1 DEF Inv, CInv, CopiedInv, Copied, At
  <1> QED
    BY <1>6, <1>9, <1>10, <1>11, <1>12 DEF Inv, CInv

LEMMA RebootStep == ASSUME Inv, Reboot PROVE Inv'
  <1>1. node \in Nodes /\ args \in [Paths -> Seq(Flags)]
    BY DEF Inv, TypeOK
  <1>2. node.reads \in Paths
    BY <1>1, NodesAssumption DEF NodeKinds
  <1>3. /\ kubelet' = args[node.reads]
        /\ UNCHANGED <<node, mounted, agent, watched, event, creds, files, args, staged, faults, crashes>>
    BY DEF Reboot
  <1>4. TypeOK'
    BY <1>1, <1>2, <1>3 DEF Inv, TypeOK
  <1>5. CInv'
    BY <1>2, <1>3 DEF Inv, CInv, ReadInv, FlagsInv, CredsInv, CopiedInv, Copied, Waiting, Linux,
           FlagsOnce, At
  <1> QED
    BY <1>4, <1>5 DEF Inv

-----------------------------------------------------------------------------
(* All steps together.                                                     *)

LEMMA InitInv == Init => Inv
  <1> SUFFICES ASSUME Init PROVE Inv
    OBVIOUS
  <1>1. node \in Nodes /\ node.reads \in Paths /\ args \in [Paths -> UserLines]
    BY NodesAssumption DEF Init, NodeKinds
  <1>2. args \in [Paths -> Seq(Flags)] /\ kubelet \in Seq(Flags) /\ kubelet = args[node.reads]
    BY <1>1, NodesAssumption DEF Init
  <1>3. mounted \in Versions
    <2>1. mounted = 0
      BY DEF Init
    <2> QED
      BY <2>1, BoundsAssumption DEF Versions
  <1>4. faults \in [{"fatal", "ignored"} -> Nat] /\ crashes \in Nat
    BY DEF Init
  <1>5. TypeOK
    BY <1>1, <1>2, <1>3, <1>4 DEF Init, TypeOK, FileStates
  <1>6. FlagsOnce /\ \A p \in Paths : ~Has(args[p], "config")
    BY <1>1, OwnerAssumption DEF FlagsOnce
  <1>7. CInv
    BY <1>1, <1>2, <1>6 DEF Init, CInv, ReadInv, FlagsInv, CredsInv, CopiedInv, At
  <1> QED
    BY <1>5, <1>7 DEF Inv

LEMMA NextInv == Inv /\ [Next]_vars => Inv'
  <1> SUFFICES ASSUME Inv, [Next]_vars PROVE Inv'
    OBVIOUS
  <1>1. CASE Step
    BY <1>1, ReadStep, CredentialStep, FileStep, ArgsStep, EndStep DEF Step
  <1>2. CASE Rotate \/ Start \/ Crash \/ Reboot
    BY <1>2, RotateStep, StartStep, EndStep, RebootStep
  <1>3. CASE UNCHANGED vars
    <2>1. TypeOK'
      BY <1>3 DEF Inv, TypeOK, vars
    <2>2. CInv'
      BY <1>3 DEF Inv, CInv, ReadInv, FlagsInv, CredsInv, CopiedInv, Copied, Waiting, Linux,
           FlagsOnce, At, vars
    <2> QED
      BY <2>1, <2>2 DEF Inv
  <1> QED
    BY <1>1, <1>2, <1>3 DEF Next

LEMMA AlwaysInv == Spec => []Inv
  BY InitInv, NextInv, PTL DEF Spec

\* Every step of the agent, the kubelet and the settings API keeps the state well formed.
THEOREM TypeCorrect == Spec => []TypeOK
  <1>1. Inv => TypeOK
    BY DEF Inv
  <1> QED
    BY <1>1, AlwaysInv, PTL

\* However often the agent starts, is killed while it writes a line or fails to write its
\* files, a line of kubelet arguments never names two provider configurations or two
\* directories (updateKubeletArguments).
THEOREM ArgumentsOnce == Spec => []FlagsOnce
  <1>1. Inv => FlagsOnce
    BY DEF Inv, CInv
  <1> QED
    BY <1>1, AlwaysInv, PTL

\* A kubelet uses the agent's provider only on a node with both keys of the secret, on
\* Linux (RestartKubelet and any other restart) and on Bottlerocket (commit_and_apply).
\* They may be empty after a failure to read them that the agent ignored, and torn while
\* no agent has come back to replace them since one was cut off.
THEOREM CredentialsBeforeProvider == Spec => []CredentialsFirst
  <1>1. Inv => CredentialsFirst
    BY DEF Inv, CInv, CredsInv, CopiedInv, Waiting, CredentialsFirst
  <1> QED
    BY <1>1, AlwaysInv, PTL

-----------------------------------------------------------------------------
\* Who adds an argument to a line, and when.
LEMMA ArgsWrites ==
    ASSUME Inv, [Next]_vars, NEW p \in Paths, NEW f \in {"config", "bin dir"},
           Has(args'[p], f), ~Has(args[p], f)
    PROVE  files[f] = "whole"
  <1>1. args \in [Paths -> Seq(Flags)]
    BY DEF Inv, TypeOK
  <1>2. \A g : ~Has(<< >>, g)
    BY EmptyLine DEF Has
  <1>3. \/ UNCHANGED args
        \/ \E q \in Paths : args' = [args EXCEPT ![q] = << >>]
        \/ \E q \in Paths : WriteArgs(q)
    <2>1. Step => \/ UNCHANGED args
                  \/ \E q \in Paths : args' = [args EXCEPT ![q] = << >>]
                  \/ \E q \in Paths : WriteArgs(q)
      BY DEF Step, ConfigFound, ReadId, ReadKey, ReadFails, Watch, HandleEvent, Reading, CopyCredentials,
             CopyCredentialsFails, WriteConfig, CopyBinaries, WriteArgsFails, RestartKubelet,
             PatchCredentials, ApplyCredentials, PatchProvider, CommitChanges, Apply, RequestFails
    <2>2. Crash => UNCHANGED args \/ \E q \in Paths : args' = [args EXCEPT ![q] = << >>]
      BY DEF Crash
    <2>3. Rotate \/ Start \/ Reboot \/ UNCHANGED vars => UNCHANGED args
      BY DEF Rotate, Start, Reboot, vars
    <2> QED
      BY <2>1, <2>2, <2>3 DEF Next
  <1>4. PICK q \in Paths : WriteArgs(q)
    BY <1>1, <1>2, <1>3
  <1>5. args' = [args EXCEPT ![q] = UpdateKubeletArguments(args[q])] /\ agent # None
    BY <1>4 DEF WriteArgs, UpdateConfigFile, At
  <1>6. Has(UpdateKubeletArguments(args[p]), f)
    BY <1>1, <1>5
  <1>7. f \in agent.flags
    BY <1>1, <1>6, UpdateFacts
  <1> QED
    BY <1>5, <1>7 DEF Inv, CInv, FlagsInv

\* The agent adds an argument to a line only while the file or the binaries it names are
\* completely written, although it only logs that createConfig or copyBinaries failed.
THEOREM ArgumentsNameWholeFiles == Spec => FilesBeforeFlags
  <1>1. Inv /\ [Next]_vars =>
           [\A p \in Paths, f \in {"config", "bin dir"} :
               Has(args'[p], f) /\ ~Has(args[p], f) => files[f] = "whole"]_vars
    BY ArgsWrites
  <1> QED
    BY <1>1, AlwaysInv, PTL DEF Spec, FilesBeforeFlags

=============================================================================
