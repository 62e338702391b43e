-------------------------- MODULE CredentialProvider --------------------------
(***************************************************************************)
(* The agent of the credential provider package on one node                *)
(* (credentialproviderpackage/): it copies the AWS credentials of a        *)
(* mounted secret to the node, makes the kubelet use the ECR credential    *)
(* provider, restarts the kubelet, and then watches the secret             *)
(* (cmd/aws-credential-provider/main.go).  On Linux it edits files         *)
(* (pkg/configurator/linux), on Bottlerocket it uses the settings API      *)
(* (pkg/configurator/bottlerocket).                                        *)
(*                                                                         *)
(* The files are written in place: a write that fails or is cut off by a   *)
(* crash may leave a truncated file.  The secret's files are read one by   *)
(* one while the kubelet may replace all of them.                          *)
(***************************************************************************)
EXTENDS Naturals, Sequences

CONSTANTS
    Nodes,      \* the kinds of node to consider
    UserLines,  \* KUBELET_EXTRA_ARGS as the node's owner wrote it
    None, Empty, Torn, MaxRotations, MaxCrashes,
    MaxFaults   \* number of faults of each kind

Paths == {"extra args", "legacy"}   \* kubelet-extra-args, ubuntu-legacy-kubelet-extra-args
\* A node's system; whether its secret has a key config or the separate keys; which of
\* the files of kubelet arguments it has, and which one its kubelet reads; on
\* Bottlerocket the versions of the system and of Kubernetes.
NodeKinds == [os : {"linux", "bottlerocket"}, layout : {"config", "keys"}, paths : SUBSET Paths,
              reads : Paths, version : Nat, kube : Nat]
\* Arguments that name a provider configuration and a directory of provider binaries;
\* "custom config" is one of the node's owner.
Flags == {"config", "bin dir", "custom config", "other"}
Versions == 0..MaxRotations
\* Credentials on a node: the versions of the access key and of the secret key; an empty
\* file, or one that was cut off while it was written.
Keys == [id : Versions, key : Versions]
Contents == Keys \cup {Empty, Torn}
FileStates == {"none", "whole", "torn"}
Pcs == {"id", "key", "copy", "apply", "config", "bins", "args", "provider", "commit",
        "watch", "watching"}
Agents == [pc : Pcs, read : Contents, starting : BOOLEAN, todo : SUBSET Paths, flags : SUBSET Flags]

\* What a line of arguments names: a flag, a provider configuration, a directory.
Has(line, flag) == \E i \in 1..Len(line) : line[i] = flag
Pointers(line) == {i \in 1..Len(line) : line[i] \in {"config", "custom config"}}
BinDirs(line) == {i \in 1..Len(line) : line[i] = "bin dir"}
Once(line) == (\A i, j \in Pointers(line) : i = j) /\ (\A i, j \in BinDirs(line) : i = j)

ASSUME NodesAssumption ==
    /\ Nodes \subseteq NodeKinds /\ \A n \in Nodes : {"extra args", n.reads} \subseteq n.paths
    /\ UserLines \subseteq Seq(Flags)
\* The node's owner gives an argument once, and does not name the agent's configuration.
ASSUME OwnerAssumption == \A line \in UserLines : Once(line) /\ ~Has(line, "config")
ASSUME NoneAssumption ==
    /\ None \notin Agents /\ None \notin Contents
    /\ Empty # Torn /\ {Empty, Torn} \cap Keys = {}
ASSUME BoundsAssumption == MaxRotations \in Nat /\ MaxFaults \in Nat /\ MaxCrashes \in Nat

VARIABLES
    node,     \* what kind of node this is
    mounted,  \* version of the secret that is mounted
    agent,    \* the agent's process, or None
    watched,  \* the agent has added the secret to its watcher
    event,    \* an event of the watcher is waiting
    creds,    \* the credentials the node's provider uses, or None
    files,    \* provider configuration and binaries that the agent installs
    args,     \* KUBELET_EXTRA_ARGS in each file
    staged,   \* Bottlerocket: settings not committed yet
    kubelet,  \* arguments the kubelet has been started with
    faults,   \* faults that end the agent, and faults it ignores
    crashes

vars == <<node, mounted, agent, watched, event, creds, files, args, staged, kubelet, faults, crashes>>

TypeOK ==
    /\ node \in Nodes /\ mounted \in Versions /\ agent \in Agents \cup {None}
    /\ watched \in BOOLEAN /\ event \in BOOLEAN /\ creds \in Contents \cup {None}
    /\ files \in [{"config", "bin dir"} -> FileStates]
    /\ args \in [Paths -> Seq(Flags)] /\ kubelet \in Seq(Flags)
    /\ staged \in [creds : Contents \cup {None}, provider : BOOLEAN]
    /\ faults \in [{"fatal", "ignored"} -> Nat] /\ crashes \in Nat

Init ==
    /\ node \in Nodes /\ mounted = 0 /\ agent = None /\ watched = FALSE /\ event = FALSE
    /\ creds = None /\ files = [f \in {"config", "bin dir"} |-> "none"]
    /\ args \in [Paths -> UserLines] /\ kubelet = args[node.reads]
    /\ staged = [creds |-> None, provider |-> FALSE]
    /\ faults = [k \in {"fatal", "ignored"} |-> 0] /\ crashes = 0

-----------------------------------------------------------------------------
(* Pieces of actions.                                                      *)

Fault(kind) == faults[kind] < MaxFaults /\ faults' = [faults EXCEPT ![kind] = @ + 1]
Linux == node.os = "linux"
At(pc) == agent # None /\ agent.pc = pc
Goto(pc) == agent' = [agent EXCEPT !.pc = pc] /\ UNCHANGED <<watched, event>>
\* log.ErrorLogger.Fatal; the watcher dies with the process.
Fatal == agent' = None /\ watched' = FALSE /\ event' = FALSE
Unless(condition, line, flag) == IF condition THEN line ELSE Append(line, flag)

\* Where UpdateAWSCredentials returns to: the start-up, or the loop of the watcher.
AfterCredentials ==
    IF ~agent.starting THEN Goto("watching")
    ELSE Goto(IF Linux THEN "config" ELSE "provider")

-----------------------------------------------------------------------------
\* The kubelet replaces the mounted secret, and the watcher sees a new ..data.
Rotate ==
    /\ mounted < MaxRotations /\ mounted' = mounted + 1 /\ event' = (event \/ watched)
    /\ UNCHANGED <<node, agent, watched, creds, files, args, staged, kubelet, faults, crashes>>

\* isSupportedBRVersion; version 1.11.0 is 1100.
IsSupportedBRVersion(n) == n.version > IF n.kube >= 25 THEN 1300 ELSE 1100

\* Variant: the provider is configured first.
StartWithProvider ==
    /\ agent = None /\ (Linux \/ IsSupportedBRVersion(node))
    /\ agent' = [pc |-> IF Linux THEN "config" ELSE "provider", read |-> Empty, starting |-> TRUE,
                 todo |-> node.paths, flags |-> {}]
    /\ UNCHANGED <<node, mounted, watched, event, creds, files, args, staged, kubelet, faults, crashes>>

\* main, until it asks for the credentials.  Without a supported version it ends at once.
Start ==
    /\ agent = None /\ (Linux \/ IsSupportedBRVersion(node))
    /\ agent' = [pc |-> "id", read |-> Empty, starting |-> TRUE, todo |-> node.paths, flags |-> {}]
    /\ UNCHANGED <<node, mounted, watched, event, creds, files, args, staged, kubelet, faults, crashes>>

-----------------------------------------------------------------------------
(* GetAwsConfigPath: the path of the key config, or of a file made of the  *)
(* separate keys.                                                          *)

Reading == UNCHANGED <<node, mounted, creds, files, args, staged, kubelet, crashes>>

ConfigFound ==
    /\ At("id") /\ node.layout = "config" /\ Goto("copy")
    /\ UNCHANGED faults /\ Reading

ReadId ==
    /\ At("id") /\ node.layout = "keys"
    /\ agent' = [agent EXCEPT !.pc = "key", !.read = [id |-> mounted, key |-> mounted]]
    /\ UNCHANGED <<watched, event, faults>> /\ Reading

ReadKey ==
    /\ At("key") /\ agent' = [agent EXCEPT !.pc = "copy", !.read.key = mounted]
    /\ UNCHANGED <<watched, event, faults>> /\ Reading

\* Variant: there is no content at all.
ReadFailsNil ==
    /\ (At("id") /\ node.layout = "keys") \/ At("key")
    /\ Fault("ignored") /\ agent' = [agent EXCEPT !.pc = "copy", !.read = None]
    /\ UNCHANGED <<watched, event>> /\ Reading

\* The error of generateAwsConfigSecret is overwritten by that of writing its result,
\* which is then empty.
ReadFails ==
    /\ (At("id") /\ node.layout = "keys") \/ At("key")
    /\ Fault("ignored") /\ agent' = [agent EXCEPT !.pc = "copy", !.read = Empty]
    /\ UNCHANGED <<watched, event>> /\ Reading

\* The file with the credentials is opened once.
Source == IF node.layout = "config" THEN [id |-> mounted, key |-> mounted] ELSE agent.read

-----------------------------------------------------------------------------
(* Linux: UpdateAWSCredentials, UpdateCredentialProvider, CommitChanges.   *)

CopyCredentials ==
    /\ Linux /\ At("copy") /\ creds' = Source /\ AfterCredentials
    /\ UNCHANGED <<node, mounted, files, args, staged, kubelet, faults, crashes>>

CopyCredentialsFails ==
    /\ Linux /\ At("copy") /\ Fault("fatal") /\ creds' \in {creds, Torn} /\ Fatal
    /\ UNCHANGED <<node, mounted, files, args, staged, kubelet, crashes>>

\* Variant: an argument is returned even if the file could not be written.
CreateConfigErrorDropped(ok) ==
    /\ files' = [files EXCEPT !["config"] = IF ok THEN "whole" ELSE "torn"]
    /\ agent' = [agent EXCEPT !.pc = "bins", !.flags = @ \cup {"config"}]

\* createConfig; an error is logged, and there is no argument to add.
CreateConfig(ok) ==
    /\ files' \in {[files EXCEPT !["config"] = f] : f \in IF ok THEN {"whole"} ELSE {files["config"], "torn"}}
    /\ agent' = [agent EXCEPT !.pc = "bins", !.flags = IF ok THEN @ \cup {"config"} ELSE @]

WriteConfig(ok) ==
    /\ At("config") /\ CreateConfig(ok)
    /\ IF ok THEN UNCHANGED faults ELSE Fault("ignored")
    /\ UNCHANGED <<node, mounted, watched, event, creds, args, staged, kubelet, crashes>>

\* copyBinaries, in the same way.
CopyBinaries(ok) ==
    /\ At("bins")
    /\ files' \in {[files EXCEPT !["bin dir"] = f] : f \in IF ok THEN {"whole"} ELSE {files["bin dir"], "torn"}}
    /\ agent' = [agent EXCEPT !.pc = "args", !.flags = IF ok THEN @ \cup {"bin dir"} ELSE @]
    /\ IF ok THEN UNCHANGED faults ELSE Fault("ignored")
    /\ UNCHANGED <<node, mounted, watched, event, creds, args, staged, kubelet, crashes>>

\* Variant: the line is not searched.
UpdateKubeletArgumentsAlways(line) ==
    Unless("bin dir" \notin agent.flags, Unless("config" \notin agent.flags, line, "config"), "bin dir")

\* updateKubeletArguments: an argument that is there already is left alone.
UpdateKubeletArguments(line) ==
    LET pointed == Has(line, "config") \/ Has(line, "custom config") IN
    Unless(Has(line, "bin dir") \/ "bin dir" \notin agent.flags,
           Unless(pointed \/ "config" \notin agent.flags, line, "config"), "bin dir")

\* Variant: a file without the variable is left alone.
UpdateConfigFileIfFound(p) ==
    args' = IF args[p] = <<>> THEN args ELSE [args EXCEPT ![p] = UpdateKubeletArguments(@)]

\* updateConfigFile; a line is made if there is none.
UpdateConfigFile(p) == args' = [args EXCEPT ![p] = UpdateKubeletArguments(@)]

\* The legacy file comes last.
Current(p) == p \in agent.todo /\ (p = "legacy" => agent.todo = {p})

WriteArgs(p) ==
    /\ At("args") /\ Current(p) /\ UpdateConfigFile(p)
    /\ agent' = [agent EXCEPT !.pc = IF agent.todo = {p} THEN "commit" ELSE "config",
                              !.todo = @ \ {p}, !.flags = {}]
    /\ UNCHANGED <<node, mounted, watched, event, creds, files, staged, kubelet, faults, crashes>>

WriteArgsFails(p) ==
    /\ At("args") /\ Current(p) /\ Fault("fatal") /\ Fatal
    /\ args' \in {args, [args EXCEPT ![p] = <<>>]}
    /\ UNCHANGED <<node, mounted, creds, files, staged, kubelet, crashes>>

\* SIGHUP ends the kubelet, and systemd starts it again.
RestartKubelet ==
    /\ Linux /\ At("commit") /\ kubelet' = args[node.reads] /\ Goto("watch")
    /\ UNCHANGED <<node, mounted, creds, files, args, staged, faults, crashes>>

-----------------------------------------------------------------------------
(* Bottlerocket: settings are patched, then committed.                     *)

PatchCredentials ==
    /\ ~Linux /\ At("copy") /\ staged' = [staged EXCEPT !.creds = Source] /\ Goto("apply")
    /\ UNCHANGED <<node, mounted, creds, files, args, kubelet, faults, crashes>>

PatchProvider ==
    /\ At("provider") /\ staged' = [staged EXCEPT !.provider = TRUE] /\ Goto("commit")
    /\ UNCHANGED <<node, mounted, creds, files, args, kubelet, faults, crashes>>

\* commit_and_apply applies all that is staged.
Apply ==
    /\ creds' = IF staged.creds = None THEN creds ELSE staged.creds
    /\ kubelet' = IF staged.provider THEN <<"config", "bin dir">> ELSE kubelet
    /\ staged' = [creds |-> None, provider |-> FALSE]
    /\ UNCHANGED <<node, mounted, files, args, faults, crashes>>

\* UpdateAWSCredentials commits by itself.
ApplyCredentials == At("apply") /\ Apply /\ AfterCredentials

CommitChanges == ~Linux /\ At("commit") /\ Apply /\ Goto("watch")

\* A request to the settings API fails, or there is no kubelet process.
RequestFails ==
    /\ At("apply") \/ At("provider") \/ At("commit") \/ (~Linux /\ At("copy"))
    /\ Fault("fatal") /\ Fatal
    /\ UNCHANGED <<node, mounted, creds, files, args, staged, kubelet, crashes>>

-----------------------------------------------------------------------------
(* The watcher.                                                            *)

Watch ==
    /\ At("watch") /\ agent' = [agent EXCEPT !.pc = "watching", !.starting = FALSE]
    /\ watched' = TRUE /\ UNCHANGED event
    /\ UNCHANGED <<node, mounted, creds, files, args, staged, kubelet, faults, crashes>>

\* Variant: only the first event counts.
HandleEventOnce ==
    /\ At("watching") /\ event /\ mounted = 1 /\ event' = FALSE
    /\ agent' = [agent EXCEPT !.pc = "id"] /\ UNCHANGED <<watched, faults>> /\ Reading

HandleEvent ==
    /\ At("watching") /\ event /\ event' = FALSE
    /\ agent' = [agent EXCEPT !.pc = "id"] /\ UNCHANGED <<watched, faults>> /\ Reading

-----------------------------------------------------------------------------
\* The pod is killed, perhaps while it writes a file.
Crash ==
    /\ agent # None /\ crashes < MaxCrashes /\ crashes' = crashes + 1 /\ Fatal
    /\ creds' \in IF Linux /\ At("copy") THEN {creds, Torn} ELSE {creds}
    /\ files' \in CASE At("config") -> {files, [files EXCEPT !["config"] = "torn"]}
                    [] At("bins") -> {files, [files EXCEPT !["bin dir"] = "torn"]}
                    [] OTHER -> {files}
    /\ args' \in {args} \cup {[args EXCEPT ![p] = <<>>] : p \in {q \in Paths : At("args") /\ Current(q)}}
    /\ UNCHANGED <<node, mounted, staged, kubelet, faults>>

\* The node's own restart of the kubelet.
Reboot ==
    /\ Linux /\ kubelet # args[node.reads] /\ kubelet' = args[node.reads]
    /\ UNCHANGED <<node, mounted, agent, watched, event, creds, files, args, staged, faults, crashes>>

Step ==
    \/ ConfigFound \/ ReadId \/ ReadKey \/ ReadFails
    \/ CopyCredentials \/ CopyCredentialsFails
    \/ \E ok \in BOOLEAN : WriteConfig(ok) \/ CopyBinaries(ok)
    \/ \E p \in Paths : WriteArgs(p) \/ WriteArgsFails(p)
    \/ RestartKubelet \/ PatchCredentials \/ ApplyCredentials \/ PatchProvider \/ CommitChanges
    \/ RequestFails \/ Watch \/ HandleEvent

Next == Rotate \/ Start \/ Step \/ Crash \/ Reboot

Spec == Init /\ [][Next]_vars

\* The kubelet starts the agent again when it has ended; the agent goes on.
FairSpec == Spec /\ WF_vars(Start) /\ WF_vars(Step)

-----------------------------------------------------------------------------
(* Properties.                                                             *)

\* However often the agent is started, and whatever was cut off before, the kubelet's
\* arguments name one provider configuration and one directory: those of the node's
\* owner if there are any.
FlagsOnce == \A p \in Paths : Once(args[p])

\* An argument is written only once the file it names has been written completely.
FilesBeforeFlags ==
    [][\A p \in Paths, f \in {"config", "bin dir"} :
          Has(args'[p], f) /\ ~Has(args[p], f) => files[f] = "whole"]_vars

\* What is copied of a secret is both of its keys, perhaps of two versions of it; it is
\* empty only if the keys are separate and a failure to read one of them was ignored
\* (GetAwsConfigPath).
Copied(c) == c \in Keys \/ (c = Empty /\ node.layout = "keys" /\ faults["ignored"] > 0)

\* A kubelet that uses the provider has credentials for it, both of the keys, with two
\* exceptions: they are empty if a failure to read the secret was ignored, and torn from
\* when the agent was cut off while it replaced them until the next one has replaced them.
CredentialsFirst ==
    Has(kubelet, "config") =>
        Copied(creds) \/ (creds = Torn /\ (agent = None \/ agent.pc \in {"id", "key", "copy"}))

\* A rotation the watcher has noticed reaches the node, even if the agent was just reading
\* the previous version; a failure to read it, which is ignored, excepted.
RotationReachesNode ==
    \A v \in Versions :
        (watched /\ event /\ mounted = v) ~>
            (creds = [id |-> v, key |-> v] \/ mounted # v \/ ~watched \/ faults["ignored"] > 0)

\* In spite of crashes and of failures that end the agent, at any step, the kubelet ends
\* up with the provider's arguments; only the failures that the agent ignores prevent it.
Configured ==
    Linux \/ IsSupportedBRVersion(node) =>
        <>[](faults["ignored"] > 0 \/ ((Has(kubelet, "config") \/ Has(kubelet, "custom config"))
                            /\ Has(kubelet, "bin dir")))
=============================================================================
