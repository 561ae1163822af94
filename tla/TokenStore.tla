------------------------------ MODULE TokenStore ------------------------------
(***************************************************************************)
(* The token store (auth.py, TokenStore) as its processes see it: the      *)
(* workers of a server and the command line, which share tokens.json.      *)
(*                                                                         *)
(* An operation reads the file, changes its copy, and writes it back: it   *)
(* opens the temporary file, which exists already if somebody left one,    *)
(* dumps the copy into it from its start, and renames it over the file.    *)
(* The lock is held while the file is read, and again while the temporary  *)
(* file is written, so those are single steps; nothing is held in between. *)
(* Within one process an operation does not await, so it runs one at a     *)
(* time.                                                                   *)
(*                                                                         *)
(* An inode keeps what the last dump left in it.  os.fdopen(fd, "w") does  *)
(* not truncate, so a dump shorter than what was there leaves a tail       *)
(* behind it and the whole does not parse, and _read answers {} for that.  *)
(* A length is the number of records, plus one for the braces; two dumps   *)
(* of as many records may still differ, since a revocation is shorter than *)
(* a live record and a time's digits vary, so the outcome is left open.    *)
(***************************************************************************)
EXTENDS Integers, FiniteSets

CONSTANTS Workers,    \* server processes
          Clis,       \* runs of python -m rtva.auth
          Tokens,
          Admins,     \* tokens with the admin scope
          Inodes,
          NoTmp,      \* the temporary file does not exist
          MaxCrashes  \* bound: processes killed in the middle of an operation

Procs == Workers \cup Clis

ASSUME StoreAssumption ==
  /\ IsFiniteSet(Tokens) /\ Admins \subseteq Tokens
  /\ Workers \cap Clis = {}
  /\ NoTmp \notin Inodes
  /\ MaxCrashes \in Nat

VARIABLES disk,     \* what each inode holds
          path,     \* the inode of tokens.json
          tmp,      \* the inode of tokens.json.tmp
          pc,       \* where each process is in an operation
          op,       \* the operation: its kind and its token
          copy,     \* the data it will write
          fd,       \* the inode it has opened as the temporary file
          crashes,
          solo,     \* history: nobody else has been at work during the operation
          firm      \* history: tokens revoked while nobody else was at work

storeVars == <<disk, path, tmp, pc, op, copy, fd, crashes, solo, firm>>

Data == [Tokens -> {"absent", "live", "revoked"}]
NoData == [t \in Tokens |-> "absent"]
Size(d) == 1 + Cardinality({t \in Tokens : d[t] # "absent"})

Empty == [data |-> NoData, size |-> 0, whole |-> FALSE]
Kinds == {"mint", "revoke", "verify"}
NoOp == [kind |-> "none", token |-> NoTmp]

StoreTypeOK ==
  /\ disk \in [Inodes -> [data : Data, size : 0..Cardinality(Tokens) + 1, whole : BOOLEAN]]
  /\ path \in Inodes /\ tmp \in Inodes \cup {NoTmp}
  /\ pc \in [Procs -> {"idle", "read", "opened", "written", "accepted"}]
  /\ op \in [Procs -> [kind : Kinds, token : Tokens] \cup {NoOp}]
  /\ copy \in [Procs -> Data]
  /\ fd \in [Procs -> Inodes \cup {NoTmp}]
  /\ crashes \in 0..MaxCrashes
  /\ solo \in [Procs -> BOOLEAN] /\ firm \subseteq Tokens

\* The store is created with some tokens, all of them live.
StoreInit ==
  /\ path \in Inodes
  /\ path = CHOOSE i \in Inodes : TRUE
  /\ \E S \in SUBSET Tokens :
       LET d == [t \in Tokens |-> IF t \in S THEN "live" ELSE "absent"]
       IN  disk = [i \in Inodes |->
                     IF i = path THEN [data |-> d, size |-> Size(d), whole |-> TRUE]
                     ELSE Empty]
  /\ tmp = NoTmp
  /\ pc = [p \in Procs |-> "idle"]
  /\ op = [p \in Procs |-> NoOp]
  /\ copy = [p \in Procs |-> NoData]
  /\ fd = [p \in Procs |-> NoTmp]
  /\ crashes = 0
  /\ solo = [p \in Procs |-> FALSE] /\ firm = {}

\* _read: a file that does not parse has no tokens in it.
Parsed(c) == IF c.whole THEN c.data ELSE NoData
Visible == Parsed(disk[path])

Busy(p) == pc[p] \in {"read", "opened", "written"}
Alone(p) == \A q \in Procs \ {p} : ~ Busy(q)

-------------------------------------------------------------------------------
(***************************************************************************)
(* The operations up to _write                                             *)
(***************************************************************************)

\* Process p has read the file and will write d.
Reads(p, kind, t, d) ==
  /\ pc' = [pc EXCEPT ![p] = "read"]
  /\ op' = [op EXCEPT ![p] = [kind |-> kind, token |-> t]]
  /\ copy' = [copy EXCEPT ![p] = d]
  /\ solo' = [q \in Procs |-> IF q = p THEN Alone(p) ELSE solo[q] /\ ~ Busy(q)]
  /\ UNCHANGED <<disk, path, tmp, fd, crashes, firm>>

\* Mutation: the new record is written over what the process found at its start.
MintFromNothing(p) ==
  \E t \in Tokens :
    /\ \A i \in Inodes : disk[i].data[t] = "absent"
    /\ \A q \in Procs : op[q].token # t
    /\ t \notin firm
    /\ Reads(p, "mint", t, [NoData EXCEPT ![t] = "live"])

\* mint(): 256 random bits, so a token nobody has held before.
Mint(p) ==
  \E t \in Tokens :
    /\ \A i \in Inodes : disk[i].data[t] = "absent"
    /\ \A q \in Procs : op[q].token # t
    /\ t \notin firm
    /\ Reads(p, "mint", t, [Visible EXCEPT ![t] = "live"])

\* _resolve: the token itself, or the only one that a prefix fits.
Resolve(given) == {t \in given : Visible[t] # "absent"}

\* revoke(): a token that is not there, or a prefix of several, writes nothing.
Revoke(p) ==
  \E given \in SUBSET Tokens, t \in Tokens :
    /\ Resolve(given) = {t}
    /\ Reads(p, "revoke", t, [Visible EXCEPT ![t] = "revoked"])

\* verify(): a live token is accepted, and its last_used_at written back.
Verify(p, t) ==
  /\ Visible[t] = "live"
  /\ Reads(p, "verify", t, Visible)

-------------------------------------------------------------------------------
(***************************************************************************)
(* _write                                                                  *)
(***************************************************************************)

\* Inodes that have no name and that nobody has open.
Unused == {i \in Inodes : i # path /\ \A p \in Procs : fd[p] # i}

\* Mutation: the file itself is opened and overwritten.
OpenInPlace(p) ==
  /\ pc[p] = "read"
  /\ fd' = [fd EXCEPT ![p] = path]
  /\ pc' = [pc EXCEPT ![p] = "opened"]
  /\ UNCHANGED <<disk, path, tmp, op, copy, crashes, solo, firm>>

\* os.open(tmp, O_RDWR | O_CREAT): the file that is there, or a new one.
OpenTmp(p) ==
  /\ pc[p] = "read"
  /\ tmp = NoTmp => Unused # {}
  /\ tmp' = IF tmp = NoTmp THEN CHOOSE i \in Unused : TRUE ELSE tmp
  /\ disk' = IF tmp = NoTmp THEN [disk EXCEPT ![tmp'] = Empty] ELSE disk
  /\ fd' = [fd EXCEPT ![p] = tmp']
  /\ pc' = [pc EXCEPT ![p] = "opened"]
  /\ UNCHANGED <<path, op, copy, crashes, solo, firm>>

\* What dumping d into an inode that holds c may leave there.
Dumped(c, d) ==
  {[data  |-> d,
    size  |-> IF Size(d) >= c.size THEN Size(d) ELSE c.size,
    whole |-> w] :
      w \in IF Size(d) > c.size THEN {TRUE} ELSE IF Size(d) < c.size THEN {FALSE} ELSE BOOLEAN}

\* The lock on the inode, json.dump, fsync, and the close that gives it back.
WriteTmp(p) ==
  /\ pc[p] = "opened"
  /\ \E c \in Dumped(disk[fd[p]], copy[p]) : disk' = [disk EXCEPT ![fd[p]] = c]
  /\ pc' = [pc EXCEPT ![p] = "written"]
  /\ copy' = [copy EXCEPT ![p] = NoData]
  /\ UNCHANGED <<path, tmp, op, fd, crashes, solo, firm>>

Forget(p) ==
  /\ op' = [op EXCEPT ![p] = IF pc'[p] = "accepted" THEN @ ELSE NoOp]
  /\ fd' = [fd EXCEPT ![p] = NoTmp]
  /\ solo' = [solo EXCEPT ![p] = FALSE]

\* An inode with neither a name nor a process that has it open is gone.
Frees ==
  disk' = [i \in Inodes |->
             IF i \in {path', tmp'} \cup {fd'[q] : q \in Procs} THEN disk[i] ELSE Empty]

\* An operation returns; a verified request goes on to its handler.
Returns(p) ==
  /\ pc' = [pc EXCEPT ![p] = IF op[p].kind = "verify" THEN "accepted" ELSE "idle"]
  /\ Forget(p)

\* Mutation: the temporary file is left where it is.
RenameForgotten(p) ==
  /\ pc[p] = "written"
  /\ tmp' = NoTmp
  /\ firm' = IF op[p].kind = "revoke" /\ solo[p] THEN firm \cup {op[p].token} ELSE firm
  /\ Returns(p)
  /\ UNCHANGED <<disk, path, copy, crashes>>

\* os.replace(tmp, path): whatever is the temporary file now becomes the file.
Rename(p) ==
  /\ pc[p] = "written"
  /\ tmp # NoTmp
  /\ path' = tmp
  /\ tmp' = NoTmp
  /\ firm' = IF op[p].kind = "revoke" /\ solo[p] THEN firm \cup {op[p].token} ELSE firm
  /\ Returns(p)
  /\ UNCHANGED <<copy, crashes>>
  /\ Frees

\* FileNotFoundError: somebody else has renamed it.  verify() suppresses it; mint
\* and revoke raise.
RenameFails(p) ==
  /\ pc[p] = "written"
  /\ tmp = NoTmp
  /\ Returns(p)
  /\ UNCHANGED <<path, tmp, copy, crashes, firm>>
  /\ Frees

\* The process is killed and started again, or a write fails and raises.
Crash(p) ==
  /\ Busy(p)
  /\ crashes < MaxCrashes
  /\ crashes' = crashes + 1
  /\ pc' = [pc EXCEPT ![p] = "idle"]
  /\ copy' = [copy EXCEPT ![p] = NoData]
  /\ Forget(p)
  /\ UNCHANGED <<path, tmp, firm>>
  /\ Frees

StoreStep(p) ==
  \/ OpenTmp(p) \/ WriteTmp(p) \/ Rename(p) \/ RenameFails(p) \/ Crash(p)

-------------------------------------------------------------------------------
(***************************************************************************)
(* Properties                                                              *)
(***************************************************************************)

\* What an operation should make of the data.
After(o, d) ==
  CASE o.kind = "mint"   -> [d EXCEPT ![o.token] = "live"]
    [] o.kind = "revoke" -> [d EXCEPT ![o.token] = "revoked"]
    [] OTHER             -> d

Finishes(p) == pc[p] = "written" /\ pc'[p] # "written" /\ crashes' = crashes

\* An operation that has the store to itself is atomic: from its end on readers
\* see exactly what it set out to write.  After a crash that needs a dump which
\* covers what the crash left in the temporary file.
SoloIsAtomic ==
  [][\A p \in Procs :
       Finishes(p) /\ solo[p] /\ (crashes = 0 \/ disk[fd[p]].whole)
         => Visible' = After(op[p], Visible)]_storeVars

\* Until then they see the tokens of before: a lone operation shows nothing of
\* itself, and a crash in the middle of it changes nothing.
UnseenUntilRename ==
  [][Visible' # Visible =>
       \/ path' # path
       \/ \E p \in Procs : Busy(p) /\ ~ solo[p]]_storeVars

\* A revocation that nobody raced is for good: the token is never live again,
\* whatever crashes and races come later, and no request goes on with it.
RevocationHolds ==
  \A t \in firm :
    /\ Visible[t] # "live"
    /\ \A p \in Procs : Busy(p) => copy[p][t] # "live"

\* "Token lifetime: indefinite until DELETE": a token that was live in the file
\* disappears from it only when somebody revokes it.
LiveUntilRevoked ==
  [][\A t \in Tokens :
       Visible[t] = "live" /\ Visible'[t] # "live" =>
         \E p \in Procs : op[p].kind = "revoke" /\ op[p].token = t]_storeVars
===============================================================================
