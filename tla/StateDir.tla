------------------------------ MODULE StateDir ------------------------------
(* The provisioner's records on disk, one directory per cluster name with a  *)
(* state.yaml in it, as create.go, reflect.go and destroy.go use them.       *)
(* provision.State is Talos code: NewState stats the directory and makes it, *)
(* Save truncates state.yaml and then encodes into it, ReadState opens and   *)
(* decodes it.                                                               *)
EXTENDS NodeIdentity

VARIABLES
  dirs,  \* the cluster names whose state directory exists
  yaml   \* cluster -> its state.yaml

stateVars == <<dirs, yaml>>

(* status "torn": the file exists and does not decode.                       *)
NoRecord == [status |-> "absent", nodes |-> <<>>, network |-> NoNetwork]
TornRecord == [NoRecord EXCEPT !.status = "torn"]
Records == [status : {"absent", "torn", "saved"}, nodes : Seq(NodeInfos),
            network : {NetworkOf[c] : c \in Clusters} \cup {NoNetwork}]

StateTypeOK ==
  /\ dirs \subseteq Clusters
  /\ yaml \in [Clusters -> Records]

StateInit ==
  /\ dirs = {}
  /\ yaml = [c \in Clusters |-> NoRecord]

(* <StateDirectory>/<name>: with an empty name, the directory of them all.   *)
clusterStatePath(name) == IF name = EmptyName THEN Clusters ELSE {name}

(* NewState: refuse a directory that exists, then make it.                   *)
StatDir(c, taken) ==
  /\ taken = (c \in dirs)
  /\ UNCHANGED stateVars

MakeDir(c, r, err) ==
  /\ err = (r # "done")
  /\ dirs' = IF err THEN dirs ELSE dirs \cup {c}
  /\ UNCHANGED yaml

(* Save: os.Create, then the encoder; without the directory Create fails.    *)
OpenRecord(c, r, err) ==
  /\ err = (r # "done" \/ c \notin dirs)
  /\ yaml' = IF err THEN yaml ELSE [yaml EXCEPT ![c] = TornRecord]
  /\ UNCHANGED dirs

WriteRecordNoNetwork(c, nodes, r, err) ==  \* mutant: Network left out of the info
  /\ err = (r # "done")
  /\ yaml' = IF err \/ yaml[c].status = "absent" THEN yaml
             ELSE [yaml EXCEPT ![c] = [NoRecord EXCEPT !.status = "saved",
                                                       !.nodes = nodes]]
  /\ UNCHANGED dirs

(* A file removed since it was opened keeps no entry.                        *)
WriteRecord(c, nodes, r, err) ==
  /\ err = (r # "done")
  /\ yaml' = IF err \/ yaml[c].status = "absent" THEN yaml
             ELSE [yaml EXCEPT ![c] = [status |-> "saved", nodes |-> nodes,
                                       network |-> NetworkOf[c]]]
  /\ UNCHANGED dirs

(* ReadState; no state.yaml lies directly in the parent directory.           *)
ReadState(name) == IF name = EmptyName THEN NoRecord ELSE yaml[name]

(* os.RemoveAll: the files first, then the directory itself.                 *)
RemoveRecord(name, r, err) ==
  /\ err = (r # "done")
  /\ yaml' = IF err THEN yaml
             ELSE [c \in Clusters |-> IF c \in clusterStatePath(name)
                                        THEN NoRecord ELSE yaml[c]]
  /\ UNCHANGED dirs

RemoveDir(name, r, err) ==
  /\ err = (r # "done")
  /\ IF err THEN UNCHANGED stateVars
     ELSE /\ yaml' = [c \in Clusters |-> IF c \in clusterStatePath(name)
                                           THEN NoRecord ELSE yaml[c]]
          /\ dirs' = dirs \ clusterStatePath(name)
=============================================================================
