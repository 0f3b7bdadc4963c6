-------------------------- MODULE LocalDataProofs --------------------------
(***************************************************************************)
(* Proofs about LocalData: the stores implement Registry, and the database *)
(* of a live process is not stopped.                                       *)
(***************************************************************************)
EXTENDS LocalData, TLAPS

(***************************************************************************)
(* The inductive invariant.                                                *)
(***************************************************************************)
Ops == ConfigurationOps \cup BindingOps

Doc(n) == IF n = "configuration" THEN Configurations ELSE Bindings

Files(n) == Doc(n) \cup {NoFile, Damaged, Unusable}

AnyFile == Configurations \cup Bindings \cup {NoFile, Damaged, Unusable, None}

Calls == [op : Ops \cup {None}, step : {"idle", "lock", "write", "recover", "finish", "error"},
          draft : AnyFile, aside : AnyFile, done : BOOLEAN, alone : BOOLEAN,
          notice : BOOLEAN]

Origins == [worktree : Worktrees \cup {None}, managed : BOOLEAN]

Uses == [worktree : Worktrees, owner : Owners, container : Containers]

CleanSteps == {"idle", "stop", "check", "lock", "targets", "send"}

Cleans == [step : CleanSteps, worktree : Worktrees \cup {None}, targets : SUBSET Containers,
           safe : BOOLEAN, target : Containers \cup {None}]

Types ==
    /\ windows \in BOOLEAN
    /\ alive \in SUBSET Owners
    /\ file \in [Names -> AnyFile]
    /\ \A n \in Names : file[n] \in Files(n)
    /\ lock \in [Names -> Procs \cup {None, Cleaner}]
    /\ call \in [Procs -> Calls]
    /\ \A p \in Procs : call[p] = Idle \/ (call[p].op \in Ops /\ call[p].step # "idle")
    /\ origin \in [Owners -> Origins \cup {None}]
    /\ claims \in SUBSET Uses
    /\ clean \in Cleans

\* The document a call has read: the backup holds it while it is recovered.
Base(p) ==
    LET n == Target(call[p].op)
    IN  Content(n, IF call[p].step = "recover" THEN call[p].aside ELSE file[n])

\* The change of a call is made from the document as it still is.
Prepared(p) ==
    /\ Permits(call[p].op, Base(p))
    /\ \E kept \in SUBSET Owners : alive \subseteq kept /\ call[p].draft = Apply(call[p].op, Base(p), kept)

CallSound(p) ==
    /\ call[p].step = "lock" => ~call[p].notice
    /\ call[p].step \in {"lock", "write", "recover"} => ~call[p].done
    /\ call[p].step = "finish" => call[p].done
    /\ call[p].step \in {"write", "recover", "finish"} => lock[Target(call[p].op)] = p
    /\ call[p].step \in {"write", "recover"} => Prepared(p)
    /\ call[p].step = "recover" =>
          /\ windows
          /\ file[Target(call[p].op)] = NoFile
          /\ call[p].aside \in Files(Target(call[p].op)) \ {NoFile}

\* The bindings as a reader finds them.
Stored == Content("bindings", file["bindings"])

\* Only processes that have run are registered.
Known(doc) == doc # Unusable => \A r \in doc.records : r.owner # None => origin[r.owner] # None

OwnersKnown ==
    /\ \A o \in alive : origin[o] # None
    /\ Known(Stored)
    /\ \A p \in Procs : call[p].op \in BindingOps =>
          /\ origin[call[p].op.owner] # None
          /\ call[p].step = "recover" => Known(Content("bindings", call[p].aside))

\* No call is about to change what a claim is about.
ClaimsApart ==
    /\ \A c \in claims : c.owner \in alive
    /\ \A c \in claims, p \in Procs : ~SameUse(call[p].op, c)
    /\ \A p, q \in Procs :
          p # q /\ call[p].op \in BindingOps /\ call[q].op \in BindingOps
             /\ SameUse(call[p].op, call[q].op) => ~call[p].alone

\* A claim is in the bindings, and stays there.
ClaimsStored == ~windows =>
    /\ Stored # Unusable => claims \subseteq Stored.records
    /\ \A p \in Procs : call[p].op \in BindingOps =>
          /\ call[p].step = "write" => claims \subseteq call[p].draft.records
          /\ call[p].step = "finish" /\ call[p].op.kind = "link" =>
                Stored # Unusable /\ Record(call[p].op) \in Stored.records

\* The cleanup decides under the lock of the bindings.
CleanSound ==
    /\ clean.step \in {"idle", "stop", "check"} => ~clean.safe
    /\ clean.safe => ~windows
    /\ clean.step \in {"targets", "send"} => lock["bindings"] = Cleaner /\ Stored # Unusable
    /\ clean.step = "send" => \A k \in claims : k.container # clean.target

IInv ==
    /\ Types
    /\ \A p \in Procs : CallSound(p)
    /\ OwnersKnown
    /\ ClaimsApart
    /\ ClaimsStored
    /\ CleanSound

-----------------------------------------------------------------------------
(***************************************************************************)
(* Operations and documents.                                               *)
(***************************************************************************)
LEMMA Constants ==
    /\ None \notin Ops /\ None \notin Owners /\ None \notin Procs /\ None \notin Origins
    /\ None # Cleaner /\ Cleaner \notin Procs
    /\ Unusable \notin Configurations /\ Unusable \notin Bindings
    /\ NoFile \notin Configurations /\ NoFile \notin Bindings /\ NoFile # Unusable /\ NoFile # Damaged
    /\ Damaged \notin Configurations /\ Damaged \notin Bindings /\ Damaged # Unusable
  BY DocumentsAssumption, LocalDataAssumption DEF Ops, Origins

LEMMA Targets ==
    ASSUME NEW op
    PROVE  /\ Target(op) \in Names
           /\ op \in ConfigurationOps => Target(op) = "configuration" /\ op \notin BindingOps
           /\ op \in BindingOps <=> Target(op) = "bindings"
  <1>1. ASSUME op \in ConfigurationOps PROVE op.kind \notin {"link", "unlink"}
    BY <1>1 DEF ConfigurationOps
  <1>2. ASSUME op \in BindingOps PROVE op.kind \in {"link", "unlink"}
    BY <1>2 DEF BindingOps
  <1>3. QED
    BY <1>1, <1>2 DEF Target, Names

\* A permitted operation makes a document of a document.
LEMMA ApplyTyped ==
    ASSUME NEW op \in Ops, NEW doc \in Doc(Target(op)), NEW kept
    PROVE  Apply(op, doc, kept) \in Doc(Target(op))
  <1>1. CASE op \in BindingOps
    <2>1. doc \in Bindings /\ Doc(Target(op)) = Bindings
      BY <1>1, Targets DEF Doc
    <2>2. CASE op \in [kind : {"link"}, worktree : Worktrees, owner : Owners, container : Containers]
      <3>1. Apply(op, doc, kept) = Link(doc, Record(op), kept)
        BY <2>2 DEF Apply
      <3>2. Record(op) \in [worktree : Worktrees, owner : Owners \cup {None}, container : Containers]
        BY <2>2 DEF Record
      <3>3. QED
        BY <2>1, <3>1, <3>2 DEF Link, Bindings
    <2>3. CASE op \in [kind : {"unlink"}, worktree : Worktrees, owner : Owners]
      <3>1. Apply(op, doc, kept) = Unlink(doc, op.worktree, op.owner)
        BY <2>3 DEF Apply
      <3>2. QED
        BY <2>1, <3>1 DEF Unlink, Bindings
    <2>4. QED
      BY <1>1, <2>2, <2>3 DEF BindingOps
  <1>2. CASE op \in ConfigurationOps
    <2>1. doc \in Configurations /\ Doc(Target(op)) = Configurations
      BY <1>2, Targets DEF Doc
    <2>2. \A s \in 2..5 : AtLeast(doc, s) \in Configurations
      BY <2>1 DEF AtLeast, Configurations, Schema
    <2>3. CASE op \in [kind : {"add_repository"}, id : Repos, path : Paths]
      <3>1. Apply(op, doc, kept) = AddRepository(doc, op.id, op.path)
        BY <2>3 DEF Apply
      <3>2. QED
        BY <2>1, <2>3, <3>1 DEF AddRepository, Configurations
    <2>4. CASE op \in [kind : {"remove_repository", "set_worktree_order"}, id : Repos]
      <3>1. CASE op.kind = "remove_repository"
        <4>1. Apply(op, doc, kept) = RemoveRepository(doc, op.id)
          BY <3>1 DEF Apply
        <4>2. QED
          BY <2>1, <4>1 DEF RemoveRepository, Configurations
      <3>2. CASE op.kind = "set_worktree_order"
        <4>1. Apply(op, doc, kept) = [AtLeast(doc, 3) EXCEPT !.order = @ \cup {op.id}]
          BY <3>2 DEF Apply
        <4>2. QED
          BY <2>1, <2>2, <2>4, <4>1 DEF Configurations
      <3>3. QED
        BY <2>4, <3>1, <3>2
    <2>5. CASE op \in [kind : {"set_app_language"}, lang : {"ko", "en"}]
      <3>1. Apply(op, doc, kept) = [doc EXCEPT !.lang = op.lang]
        BY <2>5 DEF Apply
      <3>2. QED
        BY <2>1, <2>5, <3>1 DEF Configurations
    <2>6. CASE op \in [kind : {"save_custom_action"}, action : Actions, id : Repos]
      <3>1. Apply(op, doc, kept) = SaveAction(doc, op.action, op.id)
        BY <2>6 DEF Apply
      <3>2. QED
        BY <2>1, <2>2, <2>6, <3>1 DEF SaveAction, Configurations
    <2>7. CASE op \in [kind : {"remove_custom_action"}, action : Actions]
      <3>1. Apply(op, doc, kept) = [doc EXCEPT !.actions = {a \in @ : a.id # op.action}]
        BY <2>7 DEF Apply
      <3>2. QED
        BY <2>1, <3>1 DEF Configurations
    <2>8. CASE op \in [kind : {"link_process"}, process : Owners, worktree : Worktrees]
      <3>1. Apply(op, doc, kept) = LinkProcess(doc, op.process, op.worktree)
        BY <2>8 DEF Apply
      <3>2. QED
        BY <2>1, <2>2, <2>8, <3>1 DEF LinkProcess, Configurations
    <2>9. CASE op \in [kind : {"unlink_process"}, process : Owners]
      <3>1. Apply(op, doc, kept) = UnlinkProcess(doc, op.process)
        BY <2>9 DEF Apply
      <3>2. QED
        BY <2>1, <2>2, <3>1 DEF UnlinkProcess, Configurations
    <2>10. QED
      BY <1>2, <2>3, <2>4, <2>5, <2>6, <2>7, <2>8, <2>9 DEF ConfigurationOps
  <1>3. QED
    BY <1>1, <1>2 DEF Ops

\* What a reader makes of a file is a document or Unusable.
LEMMA ContentTyped ==
    ASSUME NEW n \in Names, NEW f \in Files(n)
    PROVE  /\ Content(n, f) \in Doc(n) \cup {Unusable}
           /\ f \in Doc(n) => Content(n, f) = f
           /\ Content(n, NoFile) = Empty(n)
           /\ Empty(n) \in Doc(n)
  <1>1. Empty(n) \in Doc(n)
    <2>1. NoConfiguration \in Configurations
      BY DEF NoConfiguration, Configurations, Schema
    <2>2. NoBindings \in Bindings
      BY DEF NoBindings, Bindings
    <2>3. QED
      BY <2>1, <2>2 DEF Empty, Doc
  <1>2. QED
    BY <1>1, Constants DEF Content, Files, Doc, Names

\* An operation on the bindings registers its owner and nobody else.
LEMMA ApplyKnown ==
    ASSUME NEW op \in BindingOps, NEW doc \in Bindings, NEW kept,
           \A r \in doc.records : r.owner # None => origin[r.owner] # None,
           origin[op.owner] # None
    PROVE  Known(Apply(op, doc, kept))
  <1>1. CASE op \in [kind : {"link"}, worktree : Worktrees, owner : Owners, container : Containers]
    <2>1. Apply(op, doc, kept) = Link(doc, Record(op), kept)
      BY <1>1 DEF Apply
    <2>2. Apply(op, doc, kept).records \subseteq doc.records \cup {Record(op)}
      BY <2>1 DEF Link, Bindings
    <2>3. QED
      BY <2>2 DEF Known, Record
  <1>2. CASE op \in [kind : {"unlink"}, worktree : Worktrees, owner : Owners]
    <2>1. Apply(op, doc, kept) = Unlink(doc, op.worktree, op.owner)
      BY <1>2 DEF Apply
    <2>2. Apply(op, doc, kept).records =
             {IF r.worktree = op.worktree /\ r.owner = op.owner THEN [r EXCEPT !.owner = None] ELSE r :
                r \in doc.records}
      BY <2>1 DEF Unlink, Bindings
    <2>3. ASSUME NEW r \in doc.records PROVE [r EXCEPT !.owner = None].owner = None
      BY <2>3 DEF Bindings
    <2>4. QED
      BY <2>2, <2>3 DEF Known
  <1>3. QED
    BY <1>1, <1>2 DEF BindingOps

\* Whether owners that are not registered have exited does not matter.
LEMMA ApplyKept ==
    ASSUME NEW op \in Ops, NEW doc \in Doc(Target(op)), NEW kept, NEW more,
           kept \subseteq more,
           op \in BindingOps => \A r \in doc.records : r.owner \in more => r.owner \in kept
    PROVE  Apply(op, doc, more) = Apply(op, doc, kept)
  <1>1. CASE op \in ConfigurationOps
    BY <1>1 DEF ConfigurationOps, Apply
  <1>2. CASE op \in BindingOps
    <2>1. CASE op.kind = "unlink"
      BY <2>1 DEF Apply
    <2>2. CASE op.kind = "link"
      <3>1. {r \in doc.records : r.worktree # Record(op).worktree \/ (r.owner # Record(op).owner /\ r.owner \in more)}
              = {r \in doc.records : r.worktree # Record(op).worktree \/ (r.owner # Record(op).owner /\ r.owner \in kept)}
        BY <1>2
      <3>2. Link(doc, Record(op), more) = Link(doc, Record(op), kept)
        BY <3>1 DEF Link
      <3>3. QED
        BY <2>2, <3>2 DEF Apply
    <2>3. QED
      BY <1>2, <2>1, <2>2 DEF BindingOps
  <1>3. QED
    BY <1>1, <1>2 DEF Ops

\* The registrations of live processes outlast an operation about another use.
LEMMA ApplyKeepsUse ==
    ASSUME NEW op \in BindingOps, NEW doc \in Bindings, NEW kept, NEW k \in doc.records,
           k.owner \in kept, ~SameUse(op, k)
    PROVE  k \in Apply(op, doc, kept).records
  <1>1. CASE op.kind = "link"
    <2>1. Apply(op, doc, kept).records =
            {r \in doc.records : r.worktree # op.worktree \/ (r.owner # op.owner /\ r.owner \in kept)}
               \cup {Record(op)}
      BY <1>1 DEF Apply, Link, Record, Bindings
    <2>2. QED
      BY <2>1 DEF SameUse
  <1>2. CASE op.kind = "unlink"
    <2>1. Apply(op, doc, kept).records =
             {IF r.worktree = op.worktree /\ r.owner = op.owner THEN [r EXCEPT !.owner = None] ELSE r :
                r \in doc.records}
      BY <1>2 DEF Apply, Unlink, Bindings
    <2>2. QED
      BY <2>1 DEF SameUse
  <1>3. QED
    BY <1>1, <1>2 DEF BindingOps

LEMMA ApplyRegisters ==
    ASSUME NEW op \in BindingOps, NEW doc \in Bindings, NEW kept, op.kind = "link"
    PROVE  Record(op) \in Apply(op, doc, kept).records
  BY DEF Apply, Link, Bindings

-----------------------------------------------------------------------------
(***************************************************************************)
(* What is seen of a document.                                             *)
(***************************************************************************)
Holder(n, c) == {q \in Procs : c[q].step = "recover" /\ Target(c[q].op) = n}

SeenIn(n, f, c) ==
    Content(n, IF Holder(n, c) = {} THEN f[n] ELSE c[CHOOSE q \in Holder(n, c) : TRUE].aside)

LEMMA SeenIs ==
    ASSUME NEW n \in Names
    PROVE  Seen(n) = SeenIn(n, file, call) /\ Seen(n)' = SeenIn(n, file', call')
  BY DEF Seen, SeenIn, Holder

\* Nobody recovers the document: it is in its file.
LEMMA SeenFree ==
    ASSUME NEW n, NEW f, NEW c, NEW l,
           \A q \in Procs : c[q].step = "recover" => l[Target(c[q].op)] = q,
           l[n] \notin Procs \/ c[l[n]].step # "recover"
    PROVE  SeenIn(n, f, c) = Content(n, f[n])
  <1>1. Holder(n, c) = {}
    BY DEF Holder
  <1>2. QED
    BY <1>1 DEF SeenIn

\* The call that recovers it has put it aside.
LEMMA SeenAside ==
    ASSUME NEW n, NEW f, NEW c, NEW l, NEW p \in Procs,
           \A q \in Procs : c[q].step = "recover" => l[Target(c[q].op)] = q,
           c[p].step = "recover", Target(c[p].op) = n
    PROVE  SeenIn(n, f, c) = Content(n, c[p].aside)
  <1>1. Holder(n, c) = {p}
    BY DEF Holder
  <1>2. QED
    BY <1>1 DEF SeenIn

\* A step that neither changes the file nor who recovers it.
LEMMA SeenSame ==
    ASSUME NEW n, file'[n] = file[n],
           \A q \in Procs :
              /\ (call[q].step = "recover" /\ Target(call[q].op) = n)
                    <=> (call'[q].step = "recover" /\ Target(call'[q].op) = n)
              /\ call[q].step = "recover" /\ Target(call[q].op) = n => call'[q].aside = call[q].aside
    PROVE  SeenIn(n, file', call') = SeenIn(n, file, call)
  <1>1. Holder(n, call') = Holder(n, call)
    BY DEF Holder
  <1>2. ASSUME Holder(n, call) # {}
        PROVE  call'[CHOOSE q \in Holder(n, call) : TRUE].aside = call[CHOOSE q \in Holder(n, call) : TRUE].aside
    <2>1. (CHOOSE q \in Holder(n, call) : TRUE) \in Holder(n, call)
      BY <1>2
    <2>2. QED
      BY <2>1 DEF Holder
  <1>3. QED
    BY <1>1, <1>2 DEF SeenIn

\* What a call has read is what the others see.
LEMMA BaseIsSeen ==
    ASSUME IInv, NEW p \in Procs, call[p].step \in {"write", "recover"}
    PROVE  /\ Seen(Target(call[p].op)) = Base(p)
           /\ Base(p) \in Doc(Target(call[p].op))
           /\ Target(call[p].op) \in Names
           /\ call[p].op \in Ops
  <1> DEFINE n == Target(call[p].op)
  <1>1. call[p].op \in Ops
    BY DEF IInv, Types, Idle
  <1>2. n \in Names
    BY Targets
  <1>3. \A q \in Procs : call[q].step = "recover" => lock[Target(call[q].op)] = q
    BY DEF IInv, CallSound
  <1>4. lock[n] = p
    BY DEF IInv, CallSound
  <1>5. Seen(n) = Base(p)
    <2>1. CASE call[p].step = "recover"
      BY <2>1, <1>2, <1>3, SeenIs, SeenAside DEF Base
    <2>2. CASE call[p].step = "write"
      BY <2>2, <1>2, <1>3, <1>4, SeenIs, SeenFree DEF Base
    <2>3. QED
      BY <2>1, <2>2
  <1>6. Base(p) \in Doc(n) \cup {Unusable}
    <2>1. file[n] \in Files(n)
      BY <1>2 DEF IInv, Types
    <2>2. call[p].step = "recover" => call[p].aside \in Files(n)
      BY DEF IInv, CallSound
    <2>3. QED
      BY <1>2, <2>1, <2>2, ContentTyped DEF Base
  <1>7. Base(p) # Unusable
    BY DEF IInv, CallSound, Prepared, Permits
  <1>8. QED
    BY <1>1, <1>2, <1>5, <1>6, <1>7

\* A draft is a document, made from what is seen now.
LEMMA DraftIsReady ==
    ASSUME IInv, NEW p \in Procs, call[p].step \in {"write", "recover"}
    PROVE  /\ call[p].draft \in Doc(Target(call[p].op))
           /\ Content(Target(call[p].op), call[p].draft) = call[p].draft
           /\ Permits(call[p].op, Seen(Target(call[p].op)))
           /\ \E kept \in SUBSET Owners :
                 alive \subseteq kept /\ call[p].draft = Apply(call[p].op, Seen(Target(call[p].op)), kept)
  <1>1. Prepared(p)
    BY DEF IInv, CallSound
  <1>2. PICK kept \in SUBSET Owners : alive \subseteq kept /\ call[p].draft = Apply(call[p].op, Base(p), kept)
    BY <1>1 DEF Prepared
  <1>3. call[p].draft \in Doc(Target(call[p].op))
    BY <1>2, BaseIsSeen, ApplyTyped
  <1>4. QED
    BY <1>1, <1>2, <1>3, BaseIsSeen, ContentTyped DEF Prepared, Files

-----------------------------------------------------------------------------
(***************************************************************************)
(* The invariant, action by action.                                        *)
(***************************************************************************)
LEMMA OldTyped ==
    ASSUME NEW i \in Repos, NEW x \in Paths
    PROVE  OldConfiguration(i, x) \in Configurations
  <1>1. {[id |-> i, path |-> x]} \in SUBSET [id : Repos, path : Paths]
    OBVIOUS
  <1>2. NoConfiguration \in Configurations
    BY DEF NoConfiguration, Configurations, Schema
  <1>3. ASSUME NEW doc \in Configurations, NEW repos \in SUBSET [id : Repos, path : Paths]
        PROVE  [doc EXCEPT !.schema = 2, !.repos = repos] \in Configurations
    <2>1. ASSUME NEW S, NEW L, NEW R, NEW A, NEW O, NEW K, NEW y \in R, 2 \in S,
                 NEW d \in [schema : S, lang : L, repos : R, actions : A, order : O, links : K]
          PROVE  [d EXCEPT !.schema = 2, !.repos = y] \in
                    [schema : S, lang : L, repos : R, actions : A, order : O, links : K]
      BY <2>1
    <2>2. 2 \in 2..Schema
      BY DEF Schema
    <2>3. QED
      BY <1>3, <2>1, <2>2, Zenon DEF Configurations
  <1>4. QED
    BY <1>1, <1>2, <1>3 DEF OldConfiguration

LEMMA IdleCleanTyped == IdleClean \in Cleans /\ IdleClean.step = "idle" /\ ~IdleClean.safe
  BY DEF IdleClean, Cleans, CleanSteps

LEMMA InitInv == Init => IInv
  <1> SUFFICES ASSUME Init PROVE IInv
    OBVIOUS
  <1>1. (\A n \in Names : file[n] \in {NoFile} \cup Doc(n)) /\ file["bindings"] = NoFile
    <2>2. QED
      BY OldTyped DEF Init, Names, Doc
  <1>2. file \in [Names -> AnyFile]
    BY <1>1 DEF Init, AnyFile, Doc
  <1>3. Types
    <2>1. Idle \in Calls
      BY DEF Idle, Calls, AnyFile
    <2>2. QED
      BY <1>1, <1>2, <2>1, IdleCleanTyped DEF Init, Types, Files
  <1>4. \A p \in Procs : call[p].op = None /\ call[p].step = "idle"
    BY DEF Init, Idle
  <1>5. Stored = NoBindings
    <2>1. Stored = Empty("bindings")
      BY <1>1, ContentTyped DEF Stored, Names, Files
    <2>2. QED
      BY <2>1 DEF Empty
  <1>10. None \notin BindingOps
    BY Constants DEF Ops
  <1>6. OwnersKnown
    BY <1>4, <1>5, <1>10 DEF OwnersKnown, Known, NoBindings, Init
  <1>7. ClaimsApart /\ ClaimsStored
    BY <1>4, <1>5, <1>10 DEF ClaimsApart, ClaimsStored, SameUse, Init
  <1>8. CleanSound
    BY DEF CleanSound, Init, IdleClean
  <1>9. QED
    BY <1>3, <1>4, <1>6, <1>7, <1>8 DEF IInv, CallSound

SameCall(q) ==
    /\ call'[q].op = call[q].op /\ call'[q].step = call[q].step /\ call'[q].draft = call[q].draft
    /\ call'[q].aside = call[q].aside /\ call'[q].done = call[q].done
    /\ call'[q].notice = call[q].notice

\* A call is as it was when its document, its lock and the owners are.
LEMMA CallKept ==
    ASSUME NEW q \in Procs, CallSound(q), SameCall(q), windows' = windows, alive' \subseteq alive,
           call[q].step \in {"write", "recover", "finish"} =>
              /\ file'[Target(call[q].op)] = file[Target(call[q].op)]
              /\ lock'[Target(call[q].op)] = lock[Target(call[q].op)]
    PROVE  CallSound(q)'
  <1>1. call[q].step \in {"write", "recover"} => Base(q)' = Base(q)
    BY DEF Base, SameCall
  <1>2. call[q].step \in {"write", "recover"} => Prepared(q)'
    BY <1>1 DEF CallSound, Prepared, SameCall
  <1>3. QED
    BY <1>2 DEF CallSound, SameCall

\* Nobody else holds the lock of a call that has one.
LEMMA OtherDocument ==
    ASSUME IInv, NEW q \in Procs, NEW n, call[q].step \in {"write", "recover", "finish"}, lock[n] # q
    PROVE  Target(call[q].op) # n
  BY DEF IInv, CallSound

\* The call of a process is idle or about a document.
LEMMA CallTyped ==
    ASSUME IInv, NEW p \in Procs
    PROVE  /\ call[p] \in Calls
           /\ call[p] = Idle \/ (call[p].op \in Ops /\ call[p].step # "idle")
           /\ call[p].step # "idle" => call[p].op \in Ops
           /\ call[p].op \in Ops => call[p].step # "idle"
           /\ call[p].op \in BindingOps => call[p].op \in Ops
  <1>1. Idle.step = "idle" /\ Idle.op = None
    BY DEF Idle
  <1>2. QED
    BY <1>1, Constants DEF IInv, Types, Ops

\* The bindings are as they were.
LEMMA StoredSame ==
    ASSUME file'["bindings"] = file["bindings"]
    PROVE  Stored' = Stored
  BY DEF Stored

LEMMA KnownKept ==
    ASSUME NEW doc, Known(doc), \A o : origin[o] # None => origin'[o] # None
    PROVE  \A r \in doc.records : doc # Unusable /\ r.owner # None => origin'[r.owner] # None
  BY DEF Known

LEMMA CallStep ==
    ASSUME IInv, NEW p \in Procs, NEW op \in Ops, Call(p, op)
    PROVE  IInv'
  <1> DEFINE rivals == {q \in Procs : call[q].op \in BindingOps /\ SameUse(op, call[q].op)}
  <1>1. /\ call[p] = Idle
        /\ op \in BindingOps => op.owner \in alive
        /\ call' = [q \in Procs |->
                      IF q = p THEN [Idle EXCEPT !.op = op, !.step = "lock", !.alone = rivals = {}]
                      ELSE [call[q] EXCEPT !.alone = @ /\ q \notin rivals]]
        /\ claims' = {c \in claims : ~SameUse(op, c)}
        /\ UNCHANGED <<windows, alive, file, lock, origin, running, clean>>
    BY DEF Call
  <1>2. /\ call'[p].op = op /\ call'[p].step = "lock" /\ ~call'[p].done /\ ~call'[p].notice
        /\ call'[p].alone <=> rivals = {}
        /\ call'[p] \in Calls
    BY <1>1 DEF Idle, Calls, AnyFile
  <1>3. ASSUME NEW q \in Procs, q # p
        PROVE  /\ SameCall(q)
               /\ call'[q] \in Calls
               /\ call'[q].alone <=> call[q].alone /\ q \notin rivals
               /\ call'[q] = Idle \/ (call'[q].op \in Ops /\ call'[q].step # "idle")
    <2>1. call[q] \in Calls
      BY CallTyped
    <2>2. call'[q] = [call[q] EXCEPT !.alone = @ /\ q \notin rivals]
      BY <1>1, <1>3
    <2>3. SameCall(q) /\ (call'[q].alone <=> call[q].alone /\ q \notin rivals)
      BY <2>1, <2>2 DEF Calls, SameCall
    <2>4. call'[q] \in Calls
      <3>1. (call[q].alone /\ q \notin rivals) \in BOOLEAN
        OBVIOUS
      <3>2. QED
        BY <2>1, <2>2, <3>1 DEF Calls
    <2>5. CASE call[q] = Idle
      <3>1. q \notin rivals
        BY <2>5, Constants DEF Idle, Ops
      <3>2. call'[q].alone = Idle.alone
        <4>1. Idle.alone = TRUE
          BY DEF Idle
        <4>2. call'[q].alone \in BOOLEAN
          BY <2>4 DEF Calls
        <4>3. call'[q].alone
          BY <2>3, <2>5, <3>1, <4>1
        <4>4. QED
          BY <4>1, <4>2, <4>3
      <3>3. Idle \in Calls
        BY DEF Idle, Calls, AnyFile
      <3>4. call'[q] = Idle
        BY <2>3, <2>4, <2>5, <3>2, <3>3 DEF Calls, SameCall
      <3>5. QED
        BY <2>3, <2>4, <3>1, <3>4
    <2>6. CASE call[q].op \in Ops /\ call[q].step # "idle"
      BY <2>3, <2>4, <2>6 DEF SameCall
    <2>7. QED
      BY <2>3, <2>4, <2>5, <2>6, CallTyped
  <1>4. Types'
    <2>1. call' \in [Procs -> Calls]
      BY <1>1, <1>2, <1>3
    <2>2. \A q \in Procs : call'[q] = Idle \/ (call'[q].op \in Ops /\ call'[q].step # "idle")
      BY <1>2, <1>3
    <2>3. claims' \in SUBSET Uses
      BY <1>1 DEF IInv, Types
    <2>4. QED
      BY <1>1, <2>1, <2>2, <2>3 DEF IInv, Types
  <1>5. ASSUME NEW q \in Procs PROVE CallSound(q)'
    <2>1. CASE q = p
      BY <1>2, <2>1 DEF CallSound
    <2>2. CASE q # p
      BY <1>1, <1>3, <2>2, CallKept DEF IInv
    <2>3. QED
      BY <2>1, <2>2
  <1>6. Stored' = Stored
    BY <1>1, StoredSame
  <1>7. OwnersKnown'
    <2>1. ASSUME NEW q \in Procs, call'[q].op \in BindingOps
          PROVE  /\ origin[call'[q].op.owner] # None
                 /\ call'[q].step = "recover" => Known(Content("bindings", call'[q].aside))
      <3>1. CASE q = p
        BY <1>1, <1>2, <2>1, <3>1 DEF IInv, OwnersKnown
      <3>2. CASE q # p
        BY <1>3, <2>1, <3>2 DEF IInv, OwnersKnown, SameCall
      <3>3. QED
        BY <3>1, <3>2
    <2>2. QED
      BY <1>1, <1>6, <2>1 DEF IInv, OwnersKnown, Known
  <1>8. ClaimsApart'
    <2>1. \A c \in claims' : c.owner \in alive'
      BY <1>1 DEF IInv, ClaimsApart
    <2>2. ASSUME NEW c \in claims', NEW q \in Procs PROVE ~SameUse(call'[q].op, c)
      BY <1>1, <1>2, <1>3 DEF IInv, ClaimsApart, SameCall
    <2>3. ASSUME NEW x \in Procs, NEW q \in Procs, x # q, call'[x].op \in BindingOps, call'[q].op \in BindingOps,
                 SameUse(call'[x].op, call'[q].op)
          PROVE  ~call'[x].alone
      <3>1. CASE x = p
        BY <1>2, <1>3, <2>3, <3>1 DEF SameCall
      <3>2. CASE q = p
        BY <1>2, <1>3, <2>3, <3>2 DEF SameCall, SameUse
      <3>3. CASE x # p /\ q # p
        BY <1>3, <2>3, <3>3 DEF IInv, ClaimsApart, SameCall
      <3>4. QED
        BY <3>1, <3>2, <3>3
    <2>4. QED
      BY <2>1, <2>2, <2>3 DEF ClaimsApart, SameUse
  <1>9. ClaimsStored'
    <2>1. ASSUME ~windows, NEW q \in Procs, call'[q].op \in BindingOps
          PROVE  /\ call'[q].step = "write" => claims' \subseteq call'[q].draft.records
                 /\ call'[q].step = "finish" /\ call'[q].op.kind = "link" =>
                       Stored # Unusable /\ Record(call'[q].op) \in Stored.records
      <3>1. CASE q = p
        BY <1>2, <3>1
      <3>2. CASE q # p
        <4>1. call'[q].op = call[q].op /\ call'[q].step = call[q].step /\ call'[q].draft = call[q].draft
          BY <1>3, <3>2 DEF SameCall
        <4>2. claims' \subseteq claims
          BY <1>1
        <4>3. QED
          BY <2>1, <4>1, <4>2 DEF IInv, ClaimsStored
      <3>3. QED
        BY <3>1, <3>2
    <2>2. QED
      BY <1>1, <1>6, <2>1 DEF IInv, ClaimsStored, Record
  <1>10. CleanSound'
    BY <1>1, <1>6 DEF IInv, CleanSound
  <1>11. QED
    BY <1>4, <1>5, <1>7, <1>8, <1>9, <1>10 DEF IInv

\* A step of one call p that leaves the documents others have locked alone.
StepOf(p, x) ==
    /\ call' = [call EXCEPT ![p] = x]
    /\ x = Idle \/ (x.op = call[p].op /\ call[p].op \in Ops /\ x.step # "idle" /\ x.alone = call[p].alone)
    /\ \A n \in Names : lock[n] \notin {None, p} => file'[n] = file[n] /\ lock'[n] = lock[n]
    /\ file' \in [Names -> AnyFile] /\ \A n \in Names : file'[n] \in Files(n)
    /\ lock' \in [Names -> Procs \cup {None, Cleaner}]
    /\ UNCHANGED <<windows, alive, origin, clean>>

LEMMA OneCall ==
    ASSUME IInv, NEW p \in Procs, NEW x \in Calls, StepOf(p, x), claims' \in SUBSET Uses,
           CallSound(p)', Known(Stored)',
           x.op \in BindingOps /\ x.step = "recover" => Known(Content("bindings", x.aside))
    PROVE  /\ Types'
           /\ \A q \in Procs : CallSound(q)'
           /\ OwnersKnown'
           /\ call'[p] = x
           /\ \A q \in Procs : q # p => call'[q] = call[q]
           /\ x.op \in BindingOps => x.op = call[p].op
           /\ lock["bindings"] \notin {None, p} => Stored' = Stored
  <1>1. call'[p] = x /\ \A q \in Procs : q # p => call'[q] = call[q]
    BY DEF StepOf, IInv, Types
  <1>2. Types'
    <2>1. call' \in [Procs -> Calls]
      BY DEF StepOf, IInv, Types
    <2>2. \A q \in Procs : call'[q] = Idle \/ (call'[q].op \in Ops /\ call'[q].step # "idle")
      BY <1>1 DEF StepOf, IInv, Types
    <2>3. QED
      BY <2>1, <2>2 DEF StepOf, IInv, Types
  <1>3. x.op \in BindingOps => x.op = call[p].op
    BY Constants DEF StepOf, Idle, Ops
  <1>4. ASSUME NEW q \in Procs PROVE CallSound(q)'
    <2>1. CASE q # p
      <3>1. CallSound(q) /\ SameCall(q)
        BY <1>1, <2>1 DEF IInv, SameCall
      <3>2. call[q].step \in {"write", "recover", "finish"} =>
               /\ file'[Target(call[q].op)] = file[Target(call[q].op)]
               /\ lock'[Target(call[q].op)] = lock[Target(call[q].op)]
        BY <2>1, <3>1, CallTyped, Targets, Constants DEF StepOf, CallSound
      <3>3. QED
        BY <3>1, <3>2, CallKept DEF StepOf
    <2>2. QED
      BY <2>1
  <1>5. OwnersKnown'
    <2>1. ASSUME NEW q \in Procs, call'[q].op \in BindingOps
          PROVE  /\ origin[call'[q].op.owner] # None
                 /\ call'[q].step = "recover" => Known(Content("bindings", call'[q].aside))
      BY <1>1, <1>3, <2>1 DEF IInv, OwnersKnown
    <2>2. QED
      BY <2>1 DEF IInv, OwnersKnown, StepOf, Known
  <1>6. lock["bindings"] \notin {None, p} => Stored' = Stored
    BY StoredSame DEF StepOf, Names
  <1>7. QED
    BY <1>1, <1>2, <1>3, <1>4, <1>5, <1>6

\* The same, with the claims as they were.
LEMMA OneCallInv ==
    ASSUME IInv, NEW p \in Procs, NEW x \in Calls, StepOf(p, x), claims' = claims,
           CallSound(p)', Known(Stored)',
           x.op \in BindingOps /\ x.step = "recover" => Known(Content("bindings", x.aside)),
           ~windows => (Stored' # Unusable => claims \subseteq Stored'.records),
           ~windows /\ x.op \in BindingOps =>
              /\ x.step = "write" => claims \subseteq x.draft.records
              /\ x.step = "finish" /\ x.op.kind = "link" =>
                    Stored' # Unusable /\ Record(x.op) \in Stored'.records
    PROVE  IInv'
  <1>1. /\ Types'
        /\ \A q \in Procs : CallSound(q)'
        /\ OwnersKnown'
        /\ call'[p] = x
        /\ \A q \in Procs : q # p => call'[q] = call[q]
        /\ x.op \in BindingOps => x.op = call[p].op
        /\ lock["bindings"] \notin {None, p} => Stored' = Stored
    BY OneCall DEF IInv, Types
  <1>2. ClaimsApart'
    <2>1. \A c \in claims : c.owner \in alive
      BY DEF IInv, ClaimsApart
    <2>2. ASSUME NEW c \in claims, NEW q \in Procs PROVE ~SameUse(call'[q].op, c)
      BY <1>1 DEF IInv, ClaimsApart, SameUse
    <2>3. ASSUME NEW y \in Procs, NEW q \in Procs, y # q, call'[y].op \in BindingOps, call'[q].op \in BindingOps,
                 SameUse(call'[y].op, call'[q].op)
          PROVE  ~call'[y].alone
      <3>1. call'[y].op = call[y].op /\ call'[q].op = call[q].op
        BY <1>1, <2>3
      <3>2. ~call[y].alone
        BY <2>3, <3>1 DEF IInv, ClaimsApart
      <3>3. CASE y = p
        <4>1. x # Idle
          BY <1>1, <2>3, <3>3, Constants DEF Idle, Ops
        <4>2. QED
          BY <1>1, <3>2, <3>3, <4>1 DEF StepOf
      <3>4. CASE y # p
        BY <1>1, <3>2, <3>4
      <3>5. QED
        BY <3>3, <3>4
    <2>4. QED
      BY <2>1, <2>2, <2>3 DEF ClaimsApart, SameUse, StepOf
  <1>3. ClaimsStored'
    <2>1. ASSUME ~windows, NEW q \in Procs, call'[q].op \in BindingOps
          PROVE  /\ call'[q].step = "write" => claims \subseteq call'[q].draft.records
                 /\ call'[q].step = "finish" /\ call'[q].op.kind = "link" =>
                       Stored' # Unusable /\ Record(call'[q].op) \in Stored'.records
      <3>1. CASE q = p
        BY <1>1, <2>1, <3>1
      <3>2. CASE q # p
        <4>1. call'[q] = call[q]
          BY <1>1, <3>2
        <4>2. call[q].step = "finish" => Stored' = Stored
          <5>1. Target(call[q].op) = "bindings"
            BY <2>1, <4>1, Targets
          <5>2. call[q].step = "finish" => lock["bindings"] = q
            BY <5>1 DEF IInv, CallSound
          <5>3. QED
            BY <1>1, <3>2, <5>2, Constants
        <4>3. QED
          BY <2>1, <4>1, <4>2 DEF IInv, ClaimsStored
      <3>3. QED
        BY <3>1, <3>2
    <2>2. QED
      BY <2>1 DEF StepOf, ClaimsStored, Record
  <1>4. CleanSound'
    <2>1. clean.step \in {"targets", "send"} => lock'["bindings"] = Cleaner /\ Stored' = Stored
      <3>1. clean.step \in {"targets", "send"} => lock["bindings"] = Cleaner
        BY DEF IInv, CleanSound
      <3>2. QED
        BY <1>1, <3>1, Constants DEF StepOf, Names
    <2>2. QED
      BY <2>1 DEF IInv, CleanSound, StepOf
  <1>5. QED
    BY <1>1, <1>2, <1>3, <1>4 DEF IInv

\* The bindings change only when they are the document of the call.
LEMMA StoredElsewhere ==
    ASSUME NEW n \in Names, NEW f \in AnyFile, file \in [Names -> AnyFile],
           file' = [file EXCEPT ![n] = f], n # "bindings"
    PROVE  Stored' = Stored
  BY StoredSame DEF Names

LEMMA FileTyped ==
    ASSUME IInv, NEW n \in Names, NEW f \in Files(n)
    PROVE  /\ [file EXCEPT ![n] = f] \in [Names -> AnyFile]
           /\ \A m \in Names : [file EXCEPT ![n] = f][m] \in Files(m)
           /\ [file EXCEPT ![n] = f][n] = f
           /\ \A m \in Names : m # n => [file EXCEPT ![n] = f][m] = file[m]
           /\ f \in AnyFile
  <1>1. f \in AnyFile
    BY DEF Files, AnyFile, Doc
  <1>2. QED
    BY <1>1 DEF IInv, Types

LEMMA StepTyped ==
    ASSUME NEW c \in Calls, NEW s \in {"lock", "write", "recover", "finish", "error"}
    PROVE  /\ [c EXCEPT !.step = s] \in Calls /\ [c EXCEPT !.step = s].notice = c.notice
           /\ [c EXCEPT !.step = s].op = c.op /\ [c EXCEPT !.step = s].step = s
           /\ [c EXCEPT !.step = s].alone = c.alone /\ [c EXCEPT !.step = s].done = c.done
  BY DEF Calls

\* A step that only gives the call up.
LEMMA GiveUp ==
    ASSUME IInv, NEW p \in Procs, call[p].step # "idle", call' = [call EXCEPT ![p].step = "error"],
           UNCHANGED <<windows, alive, file, lock, origin, clean, claims>>
    PROVE  IInv'
  <1> DEFINE x == [call[p] EXCEPT !.step = "error"]
  <1>1. call[p] \in Calls /\ call[p].op \in Ops
    BY CallTyped
  <1>2. x \in Calls /\ x.op = call[p].op /\ x.step = "error" /\ x.alone = call[p].alone
    BY <1>1, StepTyped
  <1>3. StepOf(p, x)
    BY <1>1, <1>2 DEF StepOf, IInv, Types
  <1>4. CallSound(p)'
    <2>1. call'[p].step = "error"
      BY <1>2 DEF IInv, Types
    <2>2. QED
      BY <2>1 DEF CallSound
  <1>5. Stored' = Stored
    BY StoredSame
  <1>6. Known(Stored)'
    BY <1>5 DEF IInv, OwnersKnown, Known
  <1>7. ~windows => (Stored' # Unusable => claims \subseteq Stored'.records)
    BY <1>5 DEF IInv, ClaimsStored
  <1>8. QED
    BY <1>2, <1>3, <1>4, <1>6, <1>7, OneCallInv

LEMMA FailStep ==
    ASSUME IInv, NEW p \in Procs, Fail(p) \/ FailLate(p)
    PROVE  IInv'
  BY GiveUp DEF Fail, FailLate

\* What a call reads of its document is the file, or of a configuration that it
\* sets aside nothing: in either case what the file holds for the others then.
LEMMA Reading ==
    ASSUME IInv, NEW n \in Names, NEW read \in Readings(n),
           file' = IF n = "configuration" /\ read = Damaged THEN [file EXCEPT ![n] = NoFile] ELSE file
    PROVE  /\ read \in Files(n)
           /\ (n = "configuration" /\ read = Damaged) \/ read = file[n]
           /\ file' \in [Names -> AnyFile]
           /\ \A m \in Names : file'[m] \in Files(m)
           /\ \A m \in Names : m # n => file'[m] = file[m]
           /\ Content(n, file'[n]) = Content(n, read)
           /\ Stored' = Stored
  <1>1. file[n] \in Files(n) /\ NoFile \in Files(n) /\ Damaged \in Files(n)
    BY DEF IInv, Types, Files
  <1>2. read \in Files(n) /\ ((n = "configuration" /\ read = Damaged) \/ read = file[n])
    BY <1>1 DEF Readings
  <1>3. CASE n = "configuration" /\ read = Damaged
    <2>1. /\ file' \in [Names -> AnyFile] /\ \A m \in Names : file'[m] \in Files(m)
          /\ file'[n] = NoFile /\ \A m \in Names : m # n => file'[m] = file[m]
      BY <1>1, <1>3, FileTyped
    <2>2. Content(n, file'[n]) = Content(n, read)
      BY <1>3, <2>1, Constants DEF Content
    <2>3. Stored' = Stored
      BY <1>3, <2>1, StoredSame DEF Names
    <2>4. QED
      BY <1>2, <2>1, <2>2, <2>3
  <1>4. CASE ~(n = "configuration" /\ read = Damaged)
    BY <1>2, <1>4, StoredSame DEF IInv, Types
  <1>5. QED
    BY <1>3, <1>4

LEMMA BeginStep ==
    ASSUME IInv, NEW p \in Procs, Begin(p)
    PROVE  IInv'
  <1> DEFINE op == call[p].op
             n  == Target(op)
  <1>1. PICK read \in Readings(n), gone \in SUBSET (Owners \ alive) :
          LET doc    == Content(n, read)
              rename == n = "configuration" /\ read = Damaged
          IN  /\ file' = IF rename THEN [file EXCEPT ![n] = NoFile] ELSE file
              /\ call' = [call EXCEPT ![p] =
                     IF Permits(op, doc)
                     THEN [@ EXCEPT !.step = "write", !.draft = Apply(op, doc, Owners \ gone),
                                    !.notice = rename]
                     ELSE [@ EXCEPT !.step = "error", !.notice = rename]]
    BY DEF Begin
  <1> DEFINE doc    == Content(n, read)
             rename == n = "configuration" /\ read = Damaged
  <1>2. /\ call[p].step = "lock" /\ lock[n] = None
        /\ lock' = [lock EXCEPT ![n] = p]
        /\ UNCHANGED <<windows, alive, origin, clean, claims>>
    BY DEF Begin, LockFree
  <1>3. call[p] \in Calls /\ op \in Ops /\ n \in Names
    BY <1>2, CallTyped, Targets
  <1>4. /\ read \in Files(n)
        /\ rename \/ read = file[n]
        /\ Content(n, file'[n]) = doc
        /\ \A m \in Names : m # n => file'[m] = file[m]
        /\ Stored' = Stored
    BY <1>1, <1>3, Reading
  <1>5. Stored' = Stored
    BY <1>4
  <1>6. Content(n, file'[n]) = doc
    BY <1>4
  <1>7. /\ file' \in [Names -> AnyFile]
        /\ \A m \in Names : file'[m] \in Files(m)
        /\ \A m \in Names : m # n => file'[m] = file[m] /\ lock'[m] = lock[m]
        /\ lock' \in [Names -> Procs \cup {None, Cleaner}] /\ lock'[n] = p
    BY <1>1, <1>2, <1>3, Reading DEF IInv, Types
  <1>8. CASE Permits(op, doc)
    <2> DEFINE x == [call[p] EXCEPT !.step = "write", !.draft = Apply(op, doc, Owners \ gone),
                                    !.notice = rename]
    <2>1. doc \in Doc(n)
      BY <1>3, <1>4, <1>8, ContentTyped DEF Permits
    <2>2. Apply(op, doc, Owners \ gone) \in Doc(n)
      BY <1>3, <2>1, ApplyTyped
    <2>3. /\ x \in Calls /\ x.op = op /\ x.step = "write" /\ x.alone = call[p].alone /\ x.done = call[p].done
          /\ x.draft = Apply(op, doc, Owners \ gone)
      <3>1. Apply(op, doc, Owners \ gone) \in AnyFile
        BY <2>2 DEF AnyFile, Doc
      <3>2. QED
        BY <1>3, <3>1 DEF Calls
    <2>4. StepOf(p, x)
      BY <1>1, <1>2, <1>3, <1>7, <1>8, <2>3 DEF StepOf
    <2>5. call'[p] = x
      BY <1>1, <1>8 DEF IInv, Types
    <2>6. CallSound(p)'
      <3>1. Base(p)' = doc
        BY <1>6, <2>3, <2>5 DEF Base
      <3>2. Owners \ gone \in SUBSET Owners /\ alive' \subseteq Owners \ gone
        BY <1>2 DEF IInv, Types
      <3>3. Prepared(p)'
        BY <1>8, <2>3, <2>5, <3>1, <3>2 DEF Prepared
      <3>4. ~call[p].done
        BY <1>2 DEF IInv, CallSound
      <3>5. QED
        BY <1>7, <2>3, <2>5, <3>3, <3>4 DEF CallSound
    <2>7. ~windows /\ op \in BindingOps => claims \subseteq x.draft.records
      <3> SUFFICES ASSUME ~windows, op \in BindingOps, NEW k \in claims
                   PROVE  k \in x.draft.records
        OBVIOUS
      <3>1. n = "bindings"
        BY Targets
      <3>2. doc = Stored /\ doc \in Bindings /\ doc # Unusable
        BY <1>4, <2>1, <3>1, Constants DEF Stored, Doc
      <3>3. k \in doc.records
        BY <3>2 DEF IInv, ClaimsStored
      <3>4. k.owner \in Owners \ gone
        BY DEF IInv, ClaimsApart, Types
      <3>5. ~SameUse(op, k)
        BY DEF IInv, ClaimsApart
      <3>6. QED
        BY <2>3, <3>2, <3>3, <3>4, <3>5, ApplyKeepsUse
    <2>8. Known(Stored)' /\ (~windows => (Stored' # Unusable => claims \subseteq Stored'.records))
      BY <1>2, <1>5 DEF IInv, OwnersKnown, Known, ClaimsStored
    <2>9. QED
      BY <1>2, <2>3, <2>4, <2>6, <2>7, <2>8, OneCallInv
  <1>9. CASE ~Permits(op, doc)
    <2> DEFINE x == [call[p] EXCEPT !.step = "error", !.notice = rename]
    <2>1. x \in Calls /\ x.op = op /\ x.step = "error" /\ x.alone = call[p].alone
      BY <1>3 DEF Calls
    <2>2. StepOf(p, x)
      BY <1>1, <1>2, <1>3, <1>7, <1>9, <2>1 DEF StepOf
    <2>3. call'[p] = x
      BY <1>1, <1>9 DEF IInv, Types
    <2>4. CallSound(p)'
      BY <2>1, <2>3 DEF CallSound
    <2>5. Known(Stored)' /\ (~windows => (Stored' # Unusable => claims \subseteq Stored'.records))
      BY <1>2, <1>5 DEF IInv, OwnersKnown, Known, ClaimsStored
    <2>6. QED
      BY <1>2, <2>1, <2>2, <2>4, <2>5, OneCallInv
  <1>10. QED
    BY <1>8, <1>9

\* The draft of a call takes the place of its document.
LEMMA DraftStored ==
    ASSUME IInv, NEW p \in Procs, call[p].step \in {"write", "recover"}, NEW x \in Calls,
           file' = [file EXCEPT ![Target(call[p].op)] = call[p].draft],
           UNCHANGED <<windows, alive, lock, origin, clean, claims>>,
           call' = [call EXCEPT ![p] = x],
           x.op = call[p].op, x.step = "finish", x.alone = call[p].alone, x.done
    PROVE  IInv'
  <1> DEFINE op    == call[p].op
             n     == Target(op)
             draft == call[p].draft
  <1>1. /\ draft \in Doc(n) /\ Content(n, draft) = draft
        /\ op \in Ops /\ n \in Names
        /\ Base(p) \in Doc(n)
    BY BaseIsSeen, DraftIsReady
  <1>2. draft \in Files(n)
    BY <1>1 DEF Files
  <1>3. /\ file' \in [Names -> AnyFile]
        /\ \A m \in Names : file'[m] \in Files(m)
        /\ file'[n] = draft
        /\ \A m \in Names : m # n => file'[m] = file[m]
    BY <1>1, <1>2, FileTyped
  <1>4. lock[n] = p
    BY DEF IInv, CallSound
  <1>5. StepOf(p, x)
    <2>1. x.step # "idle" /\ \A m \in Names : lock[m] \notin {None, p} => m # n
      BY <1>4
    <2>2. QED
      BY <1>1, <1>3, <2>1 DEF StepOf, IInv, Types
  <1>6. call'[p] = x
    BY DEF IInv, Types
  <1>7. CallSound(p)'
    BY <1>4, <1>6 DEF CallSound
  <1>8. CASE n # "bindings"
    <2>1. Stored' = Stored
      BY <1>3, <1>8, StoredSame DEF Names
    <2>2. Known(Stored)' /\ (~windows => (Stored' # Unusable => claims \subseteq Stored'.records))
      BY <2>1 DEF IInv, OwnersKnown, Known, ClaimsStored
    <2>3. op \notin BindingOps
      BY <1>8, Targets
    <2>4. QED
      BY <1>5, <1>7, <2>2, <2>3, OneCallInv
  <1>9. CASE n = "bindings"
    <2>1. op \in BindingOps /\ draft \in Bindings /\ Base(p) \in Bindings
      BY <1>1, <1>9, Targets DEF Doc
    <2>2. Stored' = draft
      BY <1>1, <1>3, <1>9 DEF Stored
    <2>3. PICK kept \in SUBSET Owners : alive \subseteq kept /\ draft = Apply(op, Base(p), kept)
      BY DEF IInv, CallSound, Prepared
    <2>4. Known(Base(p)) /\ Base(p) # Unusable
      <3>1. CASE call[p].step = "recover"
        BY <1>9, <2>1, <3>1, Constants DEF IInv, OwnersKnown, Base
      <3>2. CASE call[p].step = "write"
        BY <1>9, <2>1, <3>2, Constants DEF IInv, OwnersKnown, Base, Stored
      <3>3. QED
        BY <3>1, <3>2
    <2>5. origin[op.owner] # None
      BY <2>1 DEF IInv, OwnersKnown
    <2>6. Known(draft)
      <3>1. \A r \in Base(p).records : r.owner # None => origin[r.owner] # None
        BY <2>4 DEF Known
      <3>2. QED
        BY <2>1, <2>3, <2>5, <3>1, ApplyKnown
    <2>7. Known(Stored)'
      BY <2>2, <2>6 DEF Known
    <2>8. ~windows => claims \subseteq draft.records
      <3>1. ~windows => call[p].step = "write"
        BY DEF IInv, CallSound
      <3>2. QED
        BY <2>1, <3>1 DEF IInv, ClaimsStored
    <2>9. op.kind = "link" => Record(op) \in draft.records
      BY <2>1, <2>3, ApplyRegisters
    <2>10. draft # Unusable
      BY <2>1, Constants
    <2>11. QED
      BY <1>5, <1>7, <2>2, <2>7, <2>8, <2>9, <2>10, OneCallInv
  <1>10. QED
    BY <1>8, <1>9

LEMMA ReplaceStep ==
    ASSUME IInv, NEW p \in Procs, Replace(p)
    PROVE  IInv'
  <1> DEFINE x == [call[p] EXCEPT !.step = "finish", !.done = TRUE]
  <1>1. call[p] \in Calls
    BY CallTyped
  <1>2. x \in Calls /\ x.op = call[p].op /\ x.step = "finish" /\ x.alone = call[p].alone /\ x.done
    BY <1>1 DEF Calls
  <1>3. call' = [call EXCEPT ![p] = x]
    BY DEF Replace, IInv, Types
  <1>4. QED
    BY <1>2, <1>3, DraftStored DEF Replace

LEMMA HalfReplaceStep ==
    ASSUME IInv, NEW p \in Procs, HalfReplace(p)
    PROVE  IInv'
  <1> DEFINE op == call[p].op
             n  == Target(op)
             x  == [call[p] EXCEPT !.step = "recover", !.aside = file[n]]
  <1>1. /\ call[p].step = "write" /\ windows /\ file[n] # NoFile
        /\ file' = [file EXCEPT ![n] = NoFile]
        /\ UNCHANGED <<windows, alive, lock, origin, clean, claims>>
    BY DEF HalfReplace
  <1>2. call[p] \in Calls /\ op \in Ops /\ n \in Names
    BY <1>1, CallTyped, Targets
  <1>3. file[n] \in Files(n) /\ file[n] \in AnyFile /\ NoFile \in Files(n)
    BY <1>2 DEF IInv, Types, Files
  <1>4. /\ x \in Calls /\ x.op = op /\ x.step = "recover" /\ x.alone = call[p].alone
        /\ x.done = call[p].done /\ x.draft = call[p].draft /\ x.aside = file[n]
    BY <1>2, <1>3 DEF Calls
  <1>5. call' = [call EXCEPT ![p] = x] /\ call'[p] = x
    BY DEF HalfReplace, IInv, Types
  <1>6. /\ file' \in [Names -> AnyFile]
        /\ \A m \in Names : file'[m] \in Files(m)
        /\ file'[n] = NoFile
        /\ \A m \in Names : m # n => file'[m] = file[m]
    BY <1>1, <1>2, <1>3, FileTyped
  <1>7. CallSound(p)
    BY DEF IInv
  <1>8. StepOf(p, x)
    <2>1. \A m \in Names : lock[m] \notin {None, p} => m # n
      BY <1>1, <1>7 DEF CallSound
    <2>2. QED
      BY <1>1, <1>2, <1>4, <1>5, <1>6, <2>1 DEF StepOf, IInv, Types
  <1>9. CallSound(p)'
    <2>1. Base(p)' = Base(p)
      BY <1>1, <1>4, <1>5 DEF Base
    <2>2. Prepared(p)'
      BY <1>1, <1>4, <1>5, <1>7, <2>1 DEF Prepared, CallSound
    <2>3. QED
      BY <1>1, <1>3, <1>4, <1>5, <1>6, <1>7, <2>2 DEF CallSound
  <1>10. Known(Stored)' /\ (op \in BindingOps => Known(Content("bindings", file[n])))
    <2>1. CASE n = "bindings"
      <3>1. Stored' = NoBindings
        BY <1>2, <1>3, <1>6, <2>1, ContentTyped DEF Stored, Empty
      <3>2. QED
        BY <2>1, <3>1 DEF IInv, OwnersKnown, Stored, Known, NoBindings
    <2>2. CASE n # "bindings"
      <3>1. Stored' = Stored /\ op \notin BindingOps
        BY <1>6, <2>2, StoredSame, Targets DEF Names
      <3>2. QED
        BY <1>1, <3>1 DEF IInv, OwnersKnown, Known
    <2>3. QED
      BY <2>1, <2>2
  <1>11. QED
    BY <1>1, <1>4, <1>8, <1>9, <1>10, OneCallInv

LEMMA RecoverStep ==
    ASSUME IInv, NEW p \in Procs, Recover(p)
    PROVE  IInv'
  <1> DEFINE op == call[p].op
             n  == Target(op)
  <1>1. /\ call[p].step = "recover"
        /\ UNCHANGED <<windows, alive, lock, origin, clean, claims>>
    BY DEF Recover
  <1>2. /\ call[p] \in Calls /\ op \in Ops /\ n \in Names
        /\ CallSound(p)
    BY <1>1, CallTyped, Targets DEF IInv
  <1>3. windows /\ lock[n] = p /\ file[n] = NoFile /\ call[p].aside \in Files(n)
    BY <1>1, <1>2 DEF CallSound
  <1>4. CASE /\ file' = [file EXCEPT ![n] = call[p].draft]
             /\ call' = [call EXCEPT ![p].step = "finish", ![p].aside = None, ![p].done = TRUE]
    <2> DEFINE x == [call[p] EXCEPT !.step = "finish", !.aside = None, !.done = TRUE]
    <2>1. x \in Calls /\ x.op = call[p].op /\ x.step = "finish" /\ x.alone = call[p].alone /\ x.done
      BY <1>2 DEF Calls, AnyFile
    <2>2. call' = [call EXCEPT ![p] = x]
      BY <1>4 DEF IInv, Types
    <2>3. QED
      BY <1>1, <1>4, <2>1, <2>2, DraftStored
  <1>5. CASE /\ file' \in {[file EXCEPT ![n] = call[p].aside], file}
             /\ call' = [call EXCEPT ![p].step = "error", ![p].aside = None]
    <2> DEFINE x == [call[p] EXCEPT !.step = "error", !.aside = None]
    <2>1. x \in Calls /\ x.op = call[p].op /\ x.step = "error" /\ x.alone = call[p].alone
      BY <1>2 DEF Calls, AnyFile
    <2>2. call' = [call EXCEPT ![p] = x] /\ call'[p] = x
      BY <1>5 DEF IInv, Types
    <2>3. /\ file' \in [Names -> AnyFile]
          /\ \A m \in Names : file'[m] \in Files(m)
          /\ file'[n] \in {NoFile, call[p].aside}
          /\ \A m \in Names : m # n => file'[m] = file[m]
      BY <1>2, <1>3, <1>5, FileTyped DEF IInv, Types
    <2>4. StepOf(p, x)
      <3>1. \A m \in Names : lock[m] \notin {None, p} => m # n
        BY <1>3
      <3>2. QED
        BY <1>1, <1>2, <2>1, <2>2, <2>3, <3>1 DEF StepOf, IInv, Types
    <2>5. CallSound(p)'
      BY <2>1, <2>2 DEF CallSound
    <2>6. Known(Stored)'
      <3>1. CASE n = "bindings"
        <4>1. op \in BindingOps
          BY <3>1, Targets
        <4>2. Known(Content("bindings", call[p].aside))
          BY <1>1, <4>1 DEF IInv, OwnersKnown
        <4>3. Content("bindings", NoFile) = NoBindings
          BY <1>2, <1>3, <3>1, ContentTyped DEF Empty
        <4>4. Stored' \in {NoBindings, Content("bindings", call[p].aside)}
          BY <2>3, <3>1, <4>3 DEF Stored
        <4>5. QED
          BY <1>1, <4>2, <4>4 DEF Known, NoBindings
      <3>2. CASE n # "bindings"
        <4>1. Stored' = Stored
          BY <2>3, <3>2, StoredSame DEF Names
        <4>2. QED
          BY <1>1, <4>1 DEF IInv, OwnersKnown, Known
      <3>3. QED
        BY <3>1, <3>2
    <2>7. QED
      BY <1>1, <1>3, <2>1, <2>4, <2>5, <2>6, OneCallInv
  <1>6. QED
    BY <1>4, <1>5 DEF Recover

LEMMA LeaveStep ==
    ASSUME IInv, NEW p \in Procs, call' = [call EXCEPT ![p] = Idle], lock' = Held(p),
           UNCHANGED <<windows, alive, file, origin, clean>>
    PROVE  /\ StepOf(p, Idle) /\ Idle \in Calls
           /\ CallSound(p)'
           /\ Stored' = Stored /\ Known(Stored)'
           /\ Idle.op \notin BindingOps
  <1>1. Idle \in Calls /\ Idle.op = None /\ Idle.step = "idle"
    BY DEF Idle, Calls, AnyFile
  <1>2. StepOf(p, Idle)
    BY DEF StepOf, Held, IInv, Types
  <1>3. call'[p] = Idle
    BY DEF IInv, Types
  <1>4. CallSound(p)'
    BY <1>1, <1>3 DEF CallSound
  <1>5. Stored' = Stored
    BY StoredSame
  <1>6. Known(Stored)'
    BY <1>5 DEF IInv, OwnersKnown, Known
  <1>7. QED
    BY <1>1, <1>2, <1>4, <1>5, <1>6, Constants DEF Ops

LEMMA CrashStep ==
    ASSUME IInv, NEW p \in Procs, Crash(p)
    PROVE  IInv'
  <1>1. /\ call' = [call EXCEPT ![p] = Idle] /\ lock' = Held(p)
        /\ UNCHANGED <<windows, alive, file, origin, clean, claims>>
    BY DEF Crash
  <1>2. /\ StepOf(p, Idle) /\ Idle \in Calls
        /\ CallSound(p)'
        /\ Stored' = Stored /\ Known(Stored)'
        /\ Idle.op \notin BindingOps
    BY <1>1, LeaveStep
  <1>3. ~windows => (Stored' # Unusable => claims \subseteq Stored'.records)
    BY <1>2 DEF IInv, ClaimsStored
  <1>4. QED
    BY <1>1, <1>2, <1>3, OneCallInv

LEMMA ReturnStep ==
    ASSUME IInv, NEW p \in Procs, Return(p)
    PROVE  IInv'
  <1> DEFINE op == call[p].op
  <1>1. /\ call[p].step \in {"finish", "error"}
        /\ call' = [call EXCEPT ![p] = Idle] /\ lock' = Held(p)
        /\ claims' = IF op.kind = "link" /\ call[p].step = "finish" /\ call[p].alone /\ op.owner \in alive
                     THEN claims \cup {Record(op)} ELSE claims
        /\ UNCHANGED <<windows, alive, file, origin, clean>>
    BY DEF Return
  <1>2. /\ StepOf(p, Idle) /\ Idle \in Calls
        /\ CallSound(p)'
        /\ Stored' = Stored /\ Known(Stored)'
        /\ Idle.op \notin BindingOps
    BY <1>1, LeaveStep
  <1>3. CASE claims' = claims
    <2>1. ~windows => (Stored' # Unusable => claims \subseteq Stored'.records)
      BY <1>2 DEF IInv, ClaimsStored
    <2>2. QED
      BY <1>2, <1>3, <2>1, OneCallInv
  <1>4. CASE /\ op.kind = "link" /\ call[p].step = "finish" /\ call[p].alone /\ op.owner \in alive
             /\ claims' = claims \cup {Record(op)}
    <2>1. op \in BindingOps /\ Record(op) \in Uses
      <3>1. op \in Ops
        BY <1>4, CallTyped
      <3>2. op \in BindingOps
        BY <1>4, <3>1 DEF Ops, ConfigurationOps
      <3>3. op \in [kind : {"link"}, worktree : Worktrees, owner : Owners, container : Containers]
        BY <1>4, <3>2 DEF BindingOps
      <3>4. QED
        BY <3>2, <3>3 DEF Record, Uses
    <2>2. claims' \in SUBSET Uses
      BY <1>4, <2>1 DEF IInv, Types
    <2>3. /\ Types'
          /\ \A q \in Procs : CallSound(q)'
          /\ OwnersKnown'
          /\ call'[p] = Idle
          /\ \A q \in Procs : q # p => call'[q] = call[q]
      BY <1>2, <2>2, OneCall
    <2>4. lock["bindings"] = p
      BY <1>4, <2>1, Targets DEF IInv, CallSound
    <2>5. \A q \in Procs : q # p /\ call[q].op \in BindingOps => call[q].step \notin {"write", "finish"}
      BY <2>4, Targets DEF IInv, CallSound
    <2>6. ClaimsApart'
      <3>1. \A c \in claims' : c.owner \in alive'
        BY <1>1, <1>4 DEF IInv, ClaimsApart, Record
      <3>2. ASSUME NEW c \in claims', NEW q \in Procs PROVE ~SameUse(call'[q].op, c)
        <4>1. CASE q = p
          BY <1>2, <2>3, <4>1 DEF SameUse
        <4>2. CASE q # p /\ c \in claims
          BY <2>3, <4>2 DEF IInv, ClaimsApart
        <4>3. CASE q # p /\ c = Record(op)
          <5>1. call[q].op \in BindingOps => ~SameUse(op, call[q].op)
            BY <1>4, <2>1, <4>3 DEF IInv, ClaimsApart
          <5>2. QED
            BY <2>1, <2>3, <4>3, <5>1 DEF SameUse, Record
        <4>4. QED
          BY <1>4, <4>1, <4>2, <4>3
      <3>3. ASSUME NEW y \in Procs, NEW q \in Procs, y # q, call'[y].op \in BindingOps, call'[q].op \in BindingOps,
                   SameUse(call'[y].op, call'[q].op)
            PROVE  ~call'[y].alone
        BY <1>2, <2>3, <3>3 DEF IInv, ClaimsApart
      <3>4. QED
        BY <3>1, <3>2, <3>3 DEF ClaimsApart, SameUse
    <2>7. ClaimsStored'
      <3>1. ~windows => Stored # Unusable /\ Record(op) \in Stored.records
        BY <1>4, <2>1 DEF IInv, ClaimsStored
      <3>2. ~windows => claims' \subseteq Stored'.records
        BY <1>2, <1>4, <3>1 DEF IInv, ClaimsStored
      <3>3. ASSUME NEW q \in Procs, call'[q].op \in BindingOps PROVE call'[q].step \notin {"write", "finish"}
        BY <1>2, <2>3, <2>5, <3>3
      <3>4. QED
        BY <1>1, <3>2, <3>3 DEF ClaimsStored
    <2>8. CleanSound'
      <3>1. clean.step \notin {"targets", "send"}
        BY <2>4, Constants DEF IInv, CleanSound
      <3>2. QED
        BY <1>1, <3>1 DEF IInv, CleanSound
    <2>9. QED
      BY <2>3, <2>6, <2>7, <2>8 DEF IInv
  <1>5. QED
    BY <1>1, <1>3, <1>4

\* Steps that touch neither the documents nor the calls, and drop claims at most.
LEMMA StoreSame ==
    ASSUME IInv, alive' \subseteq alive, claims' \in SUBSET claims,
           \A k \in claims' : k.owner \in alive',
           UNCHANGED <<windows, file, lock, call, origin>>, CleanSound', Types'
    PROVE  IInv'
  <1>1. Stored' = Stored
    BY StoredSame
  <1>2. ASSUME NEW q \in Procs PROVE CallSound(q)'
    BY CallKept DEF IInv, SameCall
  <1>3. OwnersKnown'
    BY <1>1 DEF IInv, OwnersKnown, Known
  <1>4. ClaimsApart'
    BY DEF IInv, ClaimsApart
  <1>5. ClaimsStored'
    BY <1>1 DEF IInv, ClaimsStored
  <1>6. QED
    BY <1>2, <1>3, <1>4, <1>5 DEF IInv

LEMMA MeddleStep ==
    ASSUME IInv, NEW n \in Names, Meddle(n)
    PROVE  IInv'
  <1>1. PICK f \in {Damaged, Unusable} : file' = [file EXCEPT ![n] = f]
    BY DEF Meddle
  <1>2. /\ lock[n] = None
        /\ UNCHANGED <<windows, alive, lock, call, origin, clean, claims>>
    BY DEF Meddle, LockFree
  <1>3. /\ file' \in [Names -> AnyFile]
        /\ \A m \in Names : file'[m] \in Files(m)
        /\ file'[n] = f
        /\ \A m \in Names : m # n => file'[m] = file[m]
    BY <1>1, FileTyped DEF Files
  <1>4. n = "bindings" => Stored' = Unusable
    BY <1>3, Constants DEF Stored, Content
  <1>5. n # "bindings" => Stored' = Stored
    BY <1>3, StoredSame DEF Names
  <1>6. Types'
    BY <1>2, <1>3 DEF IInv, Types
  <1>7. ASSUME NEW q \in Procs PROVE CallSound(q)'
    <2>1. CallSound(q) /\ SameCall(q)
      BY <1>2 DEF IInv, SameCall
    <2>2. call[q].step \in {"write", "recover", "finish"} => Target(call[q].op) \in Names \ {n}
      BY <1>2, <2>1, Constants, Targets DEF CallSound
    <2>3. QED
      BY <1>2, <1>3, <2>1, <2>2, CallKept
  <1>8. OwnersKnown'
    <2>1. Known(Stored)'
      BY <1>2, <1>4, <1>5 DEF IInv, OwnersKnown, Known
    <2>2. QED
      BY <1>2, <2>1 DEF IInv, OwnersKnown, Known
  <1>9. ClaimsApart'
    BY <1>2 DEF IInv, ClaimsApart
  <1>10. ClaimsStored'
    <2>1. ASSUME ~windows, NEW q \in Procs, call[q].op \in BindingOps, call[q].step = "finish" PROVE Stored' = Stored
      BY <1>2, <1>5, <2>1, Constants, Targets DEF IInv, CallSound
    <2>2. ~windows => (Stored' # Unusable => claims \subseteq Stored'.records)
      BY <1>4, <1>5 DEF IInv, ClaimsStored
    <2>3. QED
      BY <1>2, <2>1, <2>2 DEF IInv, ClaimsStored
  <1>11. CleanSound'
    <2>1. clean.step \in {"targets", "send"} => Stored' = Stored
      BY <1>2, <1>5, Constants DEF IInv, CleanSound
    <2>2. QED
      BY <1>2, <2>1 DEF IInv, CleanSound
  <1>12. QED
    BY <1>6, <1>7, <1>8, <1>9, <1>10, <1>11 DEF IInv

\* An owner that starts is in no document yet.
LEMMA StartStep ==
    ASSUME IInv, NEW o \in Owners, Start(o)
    PROVE  IInv'
  <1>1. /\ origin[o] = None
        /\ alive' = alive \cup {o}
        /\ UNCHANGED <<windows, file, lock, call, clean, claims>>
    BY DEF Start, store
  <1>2. PICK w \in Worktrees \cup {None}, m \in BOOLEAN : origin' = [origin EXCEPT ![o] = [worktree |-> w, managed |-> m]]
    BY DEF Start
  <1>3. [worktree |-> w, managed |-> m] \in Origins
    BY DEF Origins
  <1>4. /\ origin' \in [Owners -> Origins \cup {None}]
        /\ origin'[o] # None
        /\ \A x : x # o => origin'[x] = origin[x]
    <2>1. origin \in [Owners -> Origins \cup {None}]
      BY DEF IInv, Types
    <2>2. QED
      BY <1>2, <1>3, <2>1, Constants
  <1>5. Stored' = Stored
    BY <1>1, StoredSame
  <1>6. Types'
    BY <1>1, <1>4 DEF IInv, Types
  <1>7. ASSUME NEW q \in Procs, call[q].step \in {"write", "recover"} PROVE Prepared(q)'
    <2> DEFINE op == call[q].op
    <2>1. /\ Permits(op, Base(q))
          /\ Base(q) \in Doc(Target(op)) /\ op \in Ops
      BY <1>7, BaseIsSeen DEF IInv, CallSound, Prepared
    <2>2. PICK kept \in SUBSET Owners : alive \subseteq kept /\ call[q].draft = Apply(op, Base(q), kept)
      BY <1>7 DEF IInv, CallSound, Prepared
    <2>3. ASSUME op \in BindingOps, NEW r \in Base(q).records PROVE r.owner # o
      <3>1. Base(q) \in Bindings /\ Target(op) = "bindings"
        BY <2>1, <2>3, Targets DEF Doc
      <3>2. Known(Base(q))
        <4>1. CASE call[q].step = "recover"
          BY <2>3, <3>1, <4>1 DEF IInv, OwnersKnown, Base
        <4>2. CASE call[q].step = "write"
          BY <2>3, <3>1, <4>2 DEF IInv, OwnersKnown, Base, Stored
        <4>3. QED
          BY <1>7, <4>1, <4>2
      <3>3. QED
        BY <1>1, <2>3, <3>1, <3>2, Constants DEF Known
    <2>4. call[q].draft = Apply(op, Base(q), kept \cup {o})
      BY <2>1, <2>2, <2>3, ApplyKept
    <2>5. Base(q)' = Base(q)
      BY <1>1 DEF Base
    <2>6. kept \cup {o} \in SUBSET Owners /\ alive' \subseteq kept \cup {o}
      BY <1>1, <2>2
    <2>7. QED
      BY <1>1, <2>1, <2>4, <2>5, <2>6 DEF Prepared
  <1>8. ASSUME NEW q \in Procs PROVE CallSound(q)'
    BY <1>1, <1>7 DEF IInv, CallSound
  <1>9. OwnersKnown'
    <2>1. \A x \in alive' : origin'[x] # None
      BY <1>1, <1>4 DEF IInv, OwnersKnown
    <2>2. Known(Stored)'
      BY <1>4, <1>5 DEF IInv, OwnersKnown, Known
    <2>3. ASSUME NEW q \in Procs, call[q].op \in BindingOps
          PROVE  /\ origin'[call[q].op.owner] # None
                 /\ call[q].step = "recover" => Known(Content("bindings", call[q].aside))'
      <3>1. origin'[call[q].op.owner] # None
        BY <1>4, <2>3 DEF IInv, OwnersKnown
      <3>2. call[q].step = "recover" => Known(Content("bindings", call[q].aside))
        BY <2>3 DEF IInv, OwnersKnown
      <3>3. call'[q].aside = call[q].aside
        BY <1>1
      <3>4. QED
        BY <1>4, <3>1, <3>2, <3>3 DEF Known
    <2>4. QED
      BY <1>1, <2>1, <2>2, <2>3 DEF OwnersKnown
  <1>10. ClaimsApart'
    BY <1>1 DEF IInv, ClaimsApart
  <1>11. ClaimsStored'
    BY <1>1, <1>5 DEF IInv, ClaimsStored
  <1>12. CleanSound'
    BY <1>1, <1>5 DEF IInv, CleanSound
  <1>13. QED
    BY <1>6, <1>8, <1>9, <1>10, <1>11, <1>12 DEF IInv

\* The calls do not depend on locks of the cleaner.
LEMMA CleanerStep ==
    ASSUME IInv, lock' \in [Names -> Procs \cup {None, Cleaner}],
           \A n \in Names : lock[n] \in Procs => lock'[n] = lock[n],
           UNCHANGED <<windows, alive, file, call, origin, claims>>, CleanSound', Types'
    PROVE  IInv'
  <1>1. Stored' = Stored
    BY StoredSame
  <1>2. ASSUME NEW q \in Procs PROVE CallSound(q)'
    <2>1. CallSound(q) /\ SameCall(q)
      BY DEF IInv, SameCall
    <2>2. call[q].step \in {"write", "recover", "finish"} => lock'[Target(call[q].op)] = lock[Target(call[q].op)]
      BY <2>1, Targets DEF CallSound
    <2>3. QED
      BY <2>1, <2>2, CallKept
  <1>3. OwnersKnown' /\ ClaimsApart' /\ ClaimsStored'
    BY <1>1 DEF IInv, OwnersKnown, Known, ClaimsApart, ClaimsStored
  <1>4. QED
    BY <1>2, <1>3 DEF IInv

LEMMA HeldTyped ==
    ASSUME IInv
    PROVE  /\ Held(Cleaner) \in [Names -> Procs \cup {None, Cleaner}]
           /\ \A n \in Names : lock[n] \in Procs => Held(Cleaner)[n] = lock[n]
  BY Constants DEF Held, IInv, Types

LEMMA CleanTyped ==
    ASSUME IInv
    PROVE  /\ clean \in Cleans
           /\ \A s \in CleanSteps : [clean EXCEPT !.step = s] \in Cleans
           /\ \A s \in CleanSteps, b \in BOOLEAN : [clean EXCEPT !.step = s, !.safe = b] \in Cleans
           /\ \A s \in CleanSteps : [clean EXCEPT !.step = s, !.target = None] \in Cleans
           /\ \A c \in Containers : [clean EXCEPT !.targets = @ \ {c}] \in Cleans
           /\ \A s \in CleanSteps, c \in Containers :
                 [clean EXCEPT !.step = s, !.target = c, !.targets = @ \ {c}] \in Cleans
  <1>1. clean \in Cleans
    BY DEF IInv, Types
  <1>2. QED
    BY <1>1 DEF Cleans

LEMMA OwnerSteps ==
    ASSUME IInv, (\E o \in Owners : Exit(o)) \/ (\E w \in Worktrees : StopAction(w)) \/ EndAction \/ CheckIdle
    PROVE  IInv'
  <1>1. CASE \E o \in Owners : Exit(o)
    <2>1. PICK o \in Owners : Exit(o)
      BY <1>1
    <2>2. /\ alive' = alive \ {o} /\ claims' = {c \in claims : c.owner # o}
          /\ UNCHANGED <<windows, file, lock, call, origin, clean>>
      BY <2>1 DEF Exit, store
    <2>3. Types'
      BY <2>2 DEF IInv, Types
    <2>4. CleanSound'
      BY <2>2, StoredSame DEF IInv, CleanSound
    <2>5. QED
      BY <2>2, <2>3, <2>4, StoreSame DEF IInv, ClaimsApart
  <1>2. CASE \E w \in Worktrees : StopAction(w)
    <2>1. PICK w \in Worktrees : StopAction(w)
      BY <1>2
    <2>2. UNCHANGED <<windows, alive, file, lock, call, origin, claims>>
      BY <2>1 DEF StopAction, store
    <2>3. PICK tree \in {Tree(w), {}} :
             clean' = [IdleClean EXCEPT !.step = "stop", !.worktree = w,
                         !.targets = (IF Stored = Unusable THEN {}
                                      ELSE {r.container : r \in {x \in Stored.records :
                                                                    x.worktree = w /\ x.owner \in tree}}) \cap running]
      BY <2>1 DEF StopAction, Stored
    <2>4. Stored # Unusable => Stored \in Bindings
      BY ContentTyped DEF IInv, Types, Stored, Names, Doc
    <2>5. Stored # Unusable => {r.container : r \in {x \in Stored.records : x.worktree = w /\ x.owner \in tree}}
                                  \in SUBSET Containers
      BY <2>4 DEF Bindings
    <2>6. (IF Stored = Unusable THEN {}
           ELSE {r.container : r \in {x \in Stored.records : x.worktree = w /\ x.owner \in tree}}) \cap running
              \in SUBSET Containers
      BY <2>5
    <2>7. clean' \in Cleans
          /\ clean'.step = "stop" /\ ~clean'.safe
      BY <2>3, <2>6 DEF IdleClean, Cleans, CleanSteps
    <2>8. Types' /\ CleanSound'
      BY <2>2, <2>7 DEF IInv, Types, CleanSound
    <2>9. QED
      BY <2>2, <2>8, StoreSame DEF IInv, ClaimsApart
  <1>3. CASE EndAction
    <2>1. UNCHANGED <<windows, file, lock, call, origin>> /\ clean.step = "stop"
      BY <1>3 DEF EndAction, store
    <2>2. /\ alive' \subseteq alive /\ claims' \in SUBSET claims
          /\ \A k \in claims' : k.owner \in alive'
      BY <1>3 DEF EndAction, IInv, ClaimsApart
    <2>3. clean' \in {IdleClean, [clean EXCEPT !.step = "check"]}
      BY <1>3 DEF EndAction
    <2>4. clean' \in Cleans
      BY <2>3, CleanTyped, IdleCleanTyped DEF CleanSteps
    <2>5. clean'.step \in {"idle", "check"} /\ ~clean'.safe
      BY <2>1, <2>3, IdleCleanTyped DEF IInv, Types, CleanSound, Cleans
    <2>6. Types' /\ CleanSound'
      BY <2>1, <2>2, <2>4, <2>5 DEF IInv, Types, CleanSound
    <2>7. QED
      BY <2>1, <2>2, <2>6, StoreSame
  <1>4. CASE CheckIdle
    <2>1. UNCHANGED <<windows, alive, file, lock, call, origin, claims>> /\ clean.step = "check"
      BY <1>4 DEF CheckIdle, store
    <2>2. PICK b \in BOOLEAN : (b => ~windows) /\ clean' = [clean EXCEPT !.step = "lock", !.safe = b]
      <3>1. (~windows /\ \A o \in alive : origin[o].worktree = None) \in BOOLEAN
        OBVIOUS
      <3>2. QED
        BY <1>4, <3>1 DEF CheckIdle
    <2>3. clean' \in Cleans
          /\ clean'.step = "lock" /\ clean'.safe = b
      <3>1. clean' \in Cleans
        BY <2>2, CleanTyped DEF CleanSteps
      <3>2. QED
        BY <2>2, <3>1 DEF IInv, Types, Cleans
    <2>4. Types' /\ CleanSound'
      BY <2>1, <2>2, <2>3 DEF IInv, Types, CleanSound
    <2>5. QED
      BY <2>1, <2>4, StoreSame DEF IInv, ClaimsApart
  <1>5. QED
    BY <1>1, <1>2, <1>3, <1>4

\* A container with a claim is not unused.
LEMMA ClaimsAreSeen ==
    ASSUME IInv, NEW c, clean.step = "targets", clean.safe, Unused(c)
    PROVE  \A k \in claims : k.container # c
  <1> SUFFICES ASSUME NEW k \in claims, k.container = c PROVE FALSE
    OBVIOUS
  <1>1. k \in Stored.records
    BY DEF IInv, CleanSound, ClaimsStored
  <1>2. k.owner \in alive /\ k.owner # None
    BY Constants DEF IInv, ClaimsApart, Types
  <1>3. QED
    BY <1>1, <1>2 DEF Unused, Stored

LEMMA CleanupSteps ==
    ASSUME IInv, LockBindings \/ (\E c \in Containers : Decide(c)) \/ SendStop \/ EndCleanup \/ CrashCleaner
    PROVE  IInv'
  <1>1. CASE LockBindings
    <2>1. /\ clean.step = "lock" /\ lock["bindings"] = None
          /\ UNCHANGED <<windows, alive, file, call, origin, claims>>
      BY <1>1 DEF LockBindings, LockFree
    <2>2. \/ clean' = IdleClean /\ lock' = lock
          \/ /\ Stored # Unusable
             /\ clean' = [clean EXCEPT !.step = "targets"] /\ lock' = [lock EXCEPT !["bindings"] = Cleaner]
      BY <1>1 DEF LockBindings, Stored
    <2>3. /\ lock' \in [Names -> Procs \cup {None, Cleaner}]
          /\ \A n \in Names : lock[n] \in Procs => lock'[n] = lock[n]
          /\ lock' = [lock EXCEPT !["bindings"] = Cleaner] => lock'["bindings"] = Cleaner
      BY <2>1, <2>2, Constants DEF IInv, Types, Names
    <2>4. Types'
      <3>1. clean' \in Cleans
        BY <2>2, CleanTyped, IdleCleanTyped DEF CleanSteps
      <3>2. QED
        BY <2>1, <2>3, <3>1 DEF IInv, Types
    <2>5. CleanSound'
      <3>1. CASE clean' = IdleClean
        BY <3>1, IdleCleanTyped DEF CleanSound
      <3>2. CASE /\ Stored # Unusable
                 /\ clean' = [clean EXCEPT !.step = "targets"] /\ lock' = [lock EXCEPT !["bindings"] = Cleaner]
        <4>1. clean'.step = "targets" /\ clean'.safe = clean.safe
          BY <3>2 DEF IInv, Types, Cleans
        <4>2. QED
          BY <2>1, <2>3, <3>2, <4>1, StoredSame DEF IInv, CleanSound
      <3>3. QED
        BY <2>2, <3>1, <3>2
    <2>6. QED
      BY <2>1, <2>3, <2>4, <2>5, CleanerStep
  <1>2. CASE \E c \in Containers : Decide(c)
    <2>1. PICK c \in Containers : Decide(c)
      BY <1>2
    <2>2. /\ clean.step = "targets"
          /\ UNCHANGED <<windows, alive, file, lock, call, origin, claims>>
      BY <2>1 DEF Decide, store
    <2>3. \/ /\ clean.safe /\ Unused(c)
             /\ clean' = [clean EXCEPT !.step = "send", !.target = c, !.targets = @ \ {c}]
          \/ clean' = [clean EXCEPT !.targets = @ \ {c}]
      BY <2>1 DEF Decide
    <2>4. clean' \in Cleans
      BY <2>3, CleanTyped DEF CleanSteps
    <2>5. Types'
      BY <2>2, <2>4 DEF IInv, Types
    <2>6. clean'.safe = clean.safe /\ (clean'.step = "targets" \/ (clean'.step = "send" /\ clean'.target = c /\ clean.safe /\ Unused(c)))
      BY <2>2, <2>3 DEF IInv, Types, Cleans
    <2>7. CleanSound'
      BY <2>2, <2>6, StoredSame, ClaimsAreSeen DEF IInv, CleanSound
    <2>8. QED
      BY <2>2, <2>5, <2>7, StoreSame DEF IInv, ClaimsApart
  <1>3. CASE SendStop
    <2>1. /\ clean.step = "send"
          /\ clean' = [clean EXCEPT !.step = "targets", !.target = None]
          /\ UNCHANGED <<windows, alive, file, lock, call, origin, claims>>
      BY <1>3 DEF SendStop, store
    <2>2. clean'.step = "targets" /\ clean'.safe = clean.safe
      BY <2>1 DEF IInv, Types, Cleans
    <2>5. clean' \in Cleans
      BY <2>1, CleanTyped DEF CleanSteps
    <2>3. Types' /\ CleanSound'
      BY <2>1, <2>2, <2>5, StoredSame DEF IInv, Types, CleanSound
    <2>4. QED
      BY <2>1, <2>3, StoreSame DEF IInv, ClaimsApart
  <1>4. CASE EndCleanup \/ CrashCleaner
    <2>1. /\ clean' = IdleClean /\ lock' = Held(Cleaner)
          /\ UNCHANGED <<windows, alive, file, call, origin, claims>>
      BY <1>4 DEF EndCleanup, CrashCleaner
    <2>2. Types' /\ CleanSound'
      BY <2>1, HeldTyped, IdleCleanTyped DEF IInv, Types, CleanSound
    <2>3. QED
      BY <2>1, <2>2, HeldTyped, CleanerStep
  <1>5. QED
    BY <1>1, <1>2, <1>3, <1>4

LEMMA NextInv == IInv /\ [Next]_vars => IInv'
  <1> SUFFICES ASSUME IInv, [Next]_vars PROVE IInv'
    OBVIOUS
  <1>1. CASE UNCHANGED <<windows, alive, file, lock, call, origin, clean, claims>>
    <2>1. Types' /\ CleanSound'
      BY <1>1, StoredSame DEF IInv, Types, CleanSound
    <2>2. QED
      BY <1>1, <2>1, StoreSame DEF IInv, ClaimsApart
  <1>2. ASSUME NEW p \in Procs, NEW op \in ConfigurationOps \cup BindingOps, Call(p, op) PROVE IInv'
    BY <1>2, CallStep DEF Ops
  <1>3. ASSUME NEW p \in Procs,
               \/ Load(p) \/ Begin(p) \/ Fail(p) \/ Replace(p) \/ HalfReplace(p)
               \/ Recover(p) \/ FailLate(p) \/ Return(p) \/ Crash(p)
        PROVE  IInv'
    <2>1. CASE Load(p)
      BY <1>1, <2>1 DEF Load
    <2>2. QED
      BY <1>3, <2>1, BeginStep, FailStep, ReplaceStep, HalfReplaceStep, RecoverStep, ReturnStep, CrashStep
  <1>4. QED
    BY <1>1, <1>2, <1>3, MeddleStep, StartStep, OwnerSteps, CleanupSteps DEF Next, vars, store

\* The invariant of the stores and of the cleanup holds throughout.
THEOREM StoreInvariant == Spec => []IInv
  BY InitInv, NextInv, PTL DEF Spec

-----------------------------------------------------------------------------
(***************************************************************************)
(* The stores implement Registry.                                          *)
(***************************************************************************)
Values  == [n \in Names |-> Seen(n)]
Pending == [p \in Procs |-> [op |-> call[p].op, done |-> call[p].done, notice |-> call[p].notice]]

LEMMA SameDocuments ==
    /\ Abstract!Names = Names
    /\ Abstract!ConfigurationOps = ConfigurationOps
    /\ Abstract!BindingOps = BindingOps
    /\ \A n : Abstract!Empty(n) = Empty(n)
    /\ \A i, x : Abstract!OldConfiguration(i, x) = OldConfiguration(i, x)
  BY DEF Abstract!Names, Names, Abstract!ConfigurationOps, ConfigurationOps, Abstract!BindingOps, BindingOps,
         Abstract!Empty, Empty, Abstract!NoConfiguration, NoConfiguration, Abstract!NoBindings, NoBindings,
         Abstract!OldConfiguration, OldConfiguration, Abstract!Schema, Schema

LEMMA SameOperations ==
    ASSUME NEW op, NEW doc, NEW kept
    PROVE  /\ Abstract!Target(op) = Target(op)
           /\ Abstract!Permits(op, doc) <=> Permits(op, doc)
           /\ Abstract!Apply(op, doc, kept) = Apply(op, doc, kept)
  <1>1. Abstract!Target(op) = Target(op)
    BY SameDocuments DEF Abstract!Target, Target
  <1>2. Abstract!Permits(op, doc) <=> Permits(op, doc)
    BY DEF Abstract!Permits, Permits, Abstract!Registered, Registered
  <1>3. Abstract!Apply(op, doc, kept) = Apply(op, doc, kept)
    BY Zenon DEF Abstract!Apply, Apply, Abstract!AtLeast, AtLeast, Abstract!AddRepository, AddRepository,
           Abstract!RemoveRepository, RemoveRepository, Abstract!SaveAction, SaveAction,
           Abstract!LinkProcess, LinkProcess, Abstract!UnlinkProcess, UnlinkProcess,
           Abstract!Link, Link, Abstract!Unlink, Unlink, Abstract!Record, Record
  <1>4. QED
    BY <1>1, <1>2, <1>3

LEMMA InitMaps == Init => Abstract!Init
  <1> SUFFICES ASSUME Init PROVE Abstract!Init
    OBVIOUS
  <1>1. \A p \in Procs : call[p].op = None /\ ~call[p].done /\ call[p].step = "idle"
    BY DEF Init, Idle
  <1>2. ASSUME NEW n \in Names PROVE Seen(n) = Content(n, file[n])
    BY <1>1 DEF Seen
  <1>3. \A n \in Names : Content(n, NoFile) = Empty(n)
    BY ContentTyped DEF Files
  <1>4. CASE file = [n \in Names |-> NoFile]
    BY <1>1, <1>2, <1>3, <1>4, SameDocuments DEF Init, Abstract!Init, Abstract!Idle, Idle
  <1>5. CASE \E i \in Repos, x \in Paths :
                file = [n \in Names |-> IF n = "configuration" THEN OldConfiguration(i, x) ELSE NoFile]
    <2>1. PICK i \in Repos, x \in Paths :
                file = [n \in Names |-> IF n = "configuration" THEN OldConfiguration(i, x) ELSE NoFile]
      BY <1>5
    <2>2. Content("configuration", OldConfiguration(i, x)) = OldConfiguration(i, x)
      BY OldTyped, ContentTyped DEF Names, Files, Doc
    <2>3. [n \in Names |-> Seen(n)] =
             [n \in Names |-> IF n = "configuration" THEN OldConfiguration(i, x) ELSE Empty(n)]
      BY <1>2, <1>3, <2>1, <2>2
    <2>4. QED
      BY <1>1, <2>1, <2>3, SameDocuments DEF Init, Abstract!Init, Abstract!Idle, Idle
  <1>6. QED
    BY <1>4, <1>5 DEF Init

\* What the others see of a document that nobody recovers is its file.
LEMMA SeenFile ==
    ASSUME IInv, NEW n \in Names, lock[n] \notin Procs \/ call[lock[n]].step # "recover"
    PROVE  SeenIn(n, file, call) = Content(n, file[n])
  <1>1. \A q \in Procs : call[q].step = "recover" => lock[Target(call[q].op)] = q
    BY DEF IInv, CallSound
  <1>2. QED
    BY <1>1, SeenFree

LEMMA SeenFileNext ==
    ASSUME IInv', NEW n \in Names, lock'[n] \notin Procs \/ call'[lock'[n]].step # "recover"
    PROVE  SeenIn(n, file', call') = Content(n, file'[n])
  <1>1. \A q \in Procs : call'[q].step = "recover" => lock'[Target(call'[q].op)] = q
    BY DEF IInv, CallSound
  <1>2. QED
    BY <1>1, SeenFree

\* A step of p shows in the document of its call only.
LEMMA SeenOthers ==
    ASSUME IInv, NEW p \in Procs, NEW x, call' = [call EXCEPT ![p] = x],
           x.op = call[p].op \/ x.step = "idle", NEW m \in Names, m # Target(call[p].op),
           file'[m] = file[m]
    PROVE  SeenIn(m, file', call') = SeenIn(m, file, call)
  <1>1. call'[p] = x /\ \A q \in Procs : q # p => call'[q] = call[q]
    BY DEF IInv, Types
  <1>2. QED
    BY <1>1, SeenSame

\* Neither does a step that neither begins nor ends a recovery.
LEMMA SeenQuiet ==
    ASSUME IInv, NEW p \in Procs, NEW x, call' = [call EXCEPT ![p] = x],
           call[p].step # "recover", x.step # "recover", file' = file
    PROVE  \A m \in Names : SeenIn(m, file', call') = SeenIn(m, file, call)
  <1>1. call'[p] = x /\ \A q \in Procs : q # p => call'[q] = call[q]
    BY DEF IInv, Types
  <1>2. QED
    BY <1>1, SeenSame

LEMMA IdleFields ==
    Idle.op = None /\ Idle.step = "idle" /\ Idle.done = FALSE /\ Idle.notice = FALSE
  BY DEF Idle

LEMMA PendingStep ==
    ASSUME IInv, NEW p \in Procs, NEW x, call' = [call EXCEPT ![p] = x]
    PROVE  Pending' = [Pending EXCEPT ![p] = [op |-> x.op, done |-> x.done, notice |-> x.notice]]
  BY DEF Pending, IInv, Types

LEMMA TakenEffect ==
    ASSUME NEW S, NEW r \in [op : S, done : BOOLEAN, notice : BOOLEAN]
    PROVE  /\ [r EXCEPT !.done = TRUE] = [op |-> r.op, done |-> TRUE, notice |-> r.notice]
           /\ [r EXCEPT !.notice = TRUE] = [op |-> r.op, done |-> r.done, notice |-> TRUE]
  <1> DEFINE s == [r EXCEPT !.done = TRUE]
             u == [r EXCEPT !.notice = TRUE]
  <1> HIDE DEF s, u
  <1>1. s \in [op : S, done : BOOLEAN, notice : BOOLEAN] /\ u \in [op : S, done : BOOLEAN, notice : BOOLEAN]
    BY DEF s, u
  <1>2. s.op = r.op /\ s.done = TRUE /\ s.notice = r.notice
    BY DEF s
  <1>3. u.op = r.op /\ u.done = r.done /\ u.notice = TRUE
    BY DEF u
  <1>4. s = [op |-> s.op, done |-> s.done, notice |-> s.notice]
    BY <1>1
  <1>5. u = [op |-> u.op, done |-> u.done, notice |-> u.notice]
    BY <1>1
  <1>6. QED
    BY <1>2, <1>3, <1>4, <1>5 DEF s, u

LEMMA ValuesAre ==
    /\ Values = [n \in Names |-> SeenIn(n, file, call)]
    /\ Values' = [n \in Names |-> SeenIn(n, file', call')]
  BY SeenIs DEF Values

LEMMA ValuesStep ==
    ASSUME NEW n \in Names, NEW v, SeenIn(n, file', call') = v,
           \A m \in Names : m # n => SeenIn(m, file', call') = SeenIn(m, file, call)
    PROVE  Values' = [Values EXCEPT ![n] = v]
  BY ValuesAre

LEMMA ValuesSame ==
    ASSUME \A m \in Names : SeenIn(m, file', call') = SeenIn(m, file, call)
    PROVE  Values' = Values
  BY ValuesAre

\* The variables of Registry.
LEMMA Mapped == Abstract!vars = <<windows, alive, Values, Pending, answer>>
  BY SameDocuments DEF Abstract!vars, Values, Pending

LEMMA Stutter ==
    ASSUME \A m \in Names : SeenIn(m, file', call') = SeenIn(m, file, call),
           \A q \in Procs : /\ call'[q].op = call[q].op /\ call'[q].done = call[q].done
                            /\ call'[q].notice = call[q].notice,
           UNCHANGED <<windows, alive, answer>>
    PROVE  UNCHANGED Abstract!vars
  <1>1. Values' = Values
    BY ValuesSame
  <1>2. Pending' = Pending
    BY DEF Pending
  <1>3. QED
    BY <1>1, <1>2 DEF Abstract!vars, Values, Pending, Abstract!Names, Names

LEMMA CallMaps ==
    ASSUME IInv, NEW p \in Procs, NEW op \in Ops, Call(p, op)
    PROVE  Abstract!Call(p, op)
  <1> DEFINE rivals == {q \in Procs : call[q].op \in BindingOps /\ SameUse(op, call[q].op)}
  <1>1. /\ call[p] = Idle
        /\ call' = [q \in Procs |->
                      IF q = p THEN [Idle EXCEPT !.op = op, !.step = "lock", !.alone = rivals = {}]
                      ELSE [call[q] EXCEPT !.alone = @ /\ q \notin rivals]]
        /\ answer' = [answer EXCEPT ![p] = None]
        /\ UNCHANGED <<windows, alive, file>>
    BY DEF Call
  <1>2. call'[p].op = op /\ ~call'[p].done /\ call'[p].step = "lock"
    BY <1>1 DEF Idle
  <1>3. call'[p].done = FALSE /\ call'[p].notice = FALSE
    BY <1>1 DEF Idle
  <1>4. \A q \in Procs \ {p} : SameCall(q)
    BY <1>1 DEF IInv, Types, Calls, SameCall
  <1>5. call[p].step = "idle" /\ call[p].op = None /\ call[p].done = FALSE /\ call[p].notice = FALSE
    BY <1>1, IdleFields
  <1>6. ASSUME NEW m \in Names PROVE SeenIn(m, file', call') = SeenIn(m, file, call)
    <2>1. ASSUME NEW q \in Procs
          PROVE  /\ (call'[q].step = "recover" /\ Target(call'[q].op) = m)
                       <=> (call[q].step = "recover" /\ Target(call[q].op) = m)
                 /\ call[q].step = "recover" => call'[q].aside = call[q].aside
      <3>1. CASE q = p
        BY <1>2, <1>5, <3>1
      <3>2. CASE q # p
        BY <1>4, <3>2 DEF SameCall
      <3>3. QED
        BY <3>1, <3>2
    <2>2. QED
      BY <1>1, <2>1, SeenSame
  <1>7. Values' = Values
    BY <1>6, ValuesSame
  <1>8. Pending' = [Pending EXCEPT ![p] = [op |-> op, done |-> FALSE, notice |-> FALSE]]
    BY <1>2, <1>3, <1>4 DEF Pending, SameCall
  <1>9. Pending[p] = [op |-> None, done |-> FALSE, notice |-> FALSE]
    BY <1>5 DEF Pending
  <1>10. Abstract!Call(p, op) <=>
            /\ Pending[p] = [op |-> None, done |-> FALSE, notice |-> FALSE]
            /\ Pending' = [Pending EXCEPT ![p] = [op |-> op, done |-> FALSE, notice |-> FALSE]]
            /\ answer' = [answer EXCEPT ![p] = None]
            /\ UNCHANGED <<windows, alive, Values>>
    BY DEF Abstract!Call, Abstract!Idle, Values, Pending, Abstract!Names, Names
  <1>11. QED
    BY <1>1, <1>7, <1>8, <1>9, <1>10

LEMMA LoadMaps ==
    ASSUME IInv, NEW p \in Procs, Load(p)
    PROVE  Abstract!Load(p)
  <1> DEFINE c == "configuration"
  <1>1. PICK read \in Readings(c) :
          answer' = [answer EXCEPT ![p] = [ok |-> Content(c, read) # Unusable, doc |-> Content(c, read),
                                           notice |-> read = Damaged]]
    BY DEF Load
  <1>2. /\ call[p] = Idle /\ lock[c] = None
        /\ UNCHANGED <<windows, alive, file, call>>
    BY DEF Load, LockFree
  <1>3. Values[c] = Content(c, file[c])
    BY <1>2, SeenFile, ValuesAre, Constants DEF Names
  <1>4. Values' = Values /\ Pending' = Pending
    BY <1>2 DEF Values, Pending, Seen
  <1>5. Pending[p] = [op |-> None, done |-> FALSE, notice |-> FALSE]
    BY <1>2, IdleFields DEF Pending
  <1>6. \/ answer' = [answer EXCEPT ![p] = [ok |-> Values[c] # Unusable, doc |-> Values[c], notice |-> FALSE]]
        \/ answer' = [answer EXCEPT ![p] = [ok |-> TRUE, doc |-> Empty(c), notice |-> TRUE]]
    <2>1. CASE read = Damaged
      <3>1. Content(c, read) = Empty(c) /\ Empty(c) # Unusable
        BY <2>1, ContentTyped, Constants DEF Content, Files, Names, Doc
      <3>2. (Content(c, read) # Unusable) = TRUE /\ (read = Damaged) = TRUE
        BY <2>1, <3>1
      <3>3. QED
        BY <1>1, <3>1, <3>2, Zenon
    <2>2. CASE read # Damaged
      <3>1. read = file[c] /\ (read = Damaged) = FALSE
        BY <2>2 DEF Readings
      <3>2. QED
        BY <1>1, <1>3, <3>1, Zenon
    <2>3. QED
      BY <2>1, <2>2
  <1>7. Abstract!Load(p) <=>
            /\ Pending[p] = [op |-> None, done |-> FALSE, notice |-> FALSE]
            /\ answer' \in
                 {[answer EXCEPT ![p] = [ok |-> Values[c] # Unusable, doc |-> Values[c], notice |-> FALSE]],
                  [answer EXCEPT ![p] = [ok |-> TRUE, doc |-> Abstract!Empty(c), notice |-> TRUE]]}
            /\ UNCHANGED <<windows, alive, Values, Pending>>
    BY DEF Abstract!Load, Abstract!Idle, Values, Pending, Abstract!Names, Names
  <1>8. QED
    BY <1>2, <1>4, <1>5, <1>6, <1>7, SameDocuments

\* A call that sets the configuration aside shows it empty; any other changes
\* nothing that others see when it begins.
LEMMA BeginMaps ==
    ASSUME IInv, IInv', NEW p \in Procs, Begin(p)
    PROVE  Abstract!SetAside(p) \/ UNCHANGED Abstract!vars
  <1> DEFINE op == call[p].op
             n  == Target(op)
  <1>1. PICK read \in Readings(n), gone \in SUBSET (Owners \ alive) :
          LET doc    == Content(n, read)
              rename == n = "configuration" /\ read = Damaged
          IN  /\ file' = IF rename THEN [file EXCEPT ![n] = NoFile] ELSE file
              /\ call' = [call EXCEPT ![p] =
                     IF Permits(op, doc)
                     THEN [@ EXCEPT !.step = "write", !.draft = Apply(op, doc, Owners \ gone),
                                    !.notice = rename]
                     ELSE [@ EXCEPT !.step = "error", !.notice = rename]]
    BY DEF Begin
  <1> DEFINE doc    == Content(n, read)
             rename == n = "configuration" /\ read = Damaged
  <1>2. /\ call[p].step = "lock" /\ lock[n] = None
        /\ lock' = [lock EXCEPT ![n] = p]
        /\ UNCHANGED <<windows, alive, answer>>
    BY DEF Begin, LockFree
  <1>3. call[p] \in Calls /\ n \in Names /\ op \in Ops
    BY <1>2, CallTyped, Targets
  <1> DEFINE x == IF Permits(op, doc)
                  THEN [call[p] EXCEPT !.step = "write", !.draft = Apply(op, doc, Owners \ gone),
                                       !.notice = rename]
                  ELSE [call[p] EXCEPT !.step = "error", !.notice = rename]
  <1>4. call' = [call EXCEPT ![p] = x] /\ call'[p] = x
    BY <1>1 DEF IInv, Types
  <1>5. x.op = op /\ x.done = call[p].done /\ x.step \in {"write", "error"} /\ x.notice = rename
    BY <1>3 DEF Calls
  <1>6. lock'[n] = p /\ call'[p].step # "recover"
    BY <1>2, <1>3, <1>4, <1>5 DEF IInv, Types
  <1>7. /\ Content(n, file'[n]) = doc /\ \A m \in Names : m # n => file'[m] = file[m]
        /\ rename \/ read = file[n]
    BY <1>1, <1>3, Reading
  <1>8. SeenIn(n, file, call) = Content(n, file[n])
    BY <1>2, <1>3, SeenFile, Constants
  <1>9. SeenIn(n, file', call') = doc
    <2>1. call'[lock'[n]].step # "recover"
      BY <1>6
    <2>2. QED
      BY <1>3, <1>7, <2>1, SeenFileNext
  <1>10. \A m \in Names : m # n => SeenIn(m, file', call') = SeenIn(m, file, call)
    BY <1>4, <1>5, <1>7, SeenOthers
  <1>11. ~call[p].done /\ ~call[p].notice
    BY <1>2 DEF IInv, CallSound
  <1>12. CASE rename
    <2>1. doc = Empty(n) /\ n = "configuration"
      BY <1>12, Constants DEF Content
    <2>2. Values' = [Values EXCEPT !["configuration"] = Abstract!Empty("configuration")]
      BY <1>3, <1>9, <1>10, <2>1, ValuesStep, SameDocuments
    <2>3. op \in ConfigurationOps
      BY <1>3, <1>12 DEF Target, Ops
    <2>4. Pending[p].op = op /\ ~Pending[p].done
      BY <1>11 DEF Pending
    <2>5. Pending' = [Pending EXCEPT ![p].notice = TRUE]
      <3>1. Pending' = [Pending EXCEPT ![p] = [op |-> op, done |-> call[p].done, notice |-> TRUE]]
        <4>1. Pending' = [Pending EXCEPT ![p] = [op |-> x.op, done |-> x.done, notice |-> x.notice]]
          BY <1>4, PendingStep
        <4>2. x.op = op /\ x.done = call[p].done /\ x.notice = TRUE
          BY <1>5, <1>12
        <4> HIDE DEF x, op
        <4>3. QED
          BY <4>1, <4>2
      <3>2. Pending[p] \in [op : Ops, done : BOOLEAN, notice : BOOLEAN]
            /\ Pending[p].op = op /\ Pending[p].done = call[p].done
        BY <1>3 DEF Pending, Calls
      <3>3. [Pending[p] EXCEPT !.notice = TRUE] = [op |-> op, done |-> call[p].done, notice |-> TRUE]
        BY <3>2, TakenEffect
      <3>4. QED
        BY <3>1, <3>3
    <2>6. Abstract!SetAside(p) <=>
            /\ Pending[p].op \in Abstract!ConfigurationOps /\ ~Pending[p].done
            /\ Values' = [Values EXCEPT !["configuration"] = Abstract!Empty("configuration")]
            /\ Pending' = [Pending EXCEPT ![p].notice = TRUE]
            /\ UNCHANGED <<windows, alive, answer>>
      BY DEF Abstract!SetAside, Values, Pending, Abstract!Names, Names
    <2>7. QED
      BY <1>2, <2>2, <2>3, <2>4, <2>5, <2>6, SameDocuments
  <1>13. CASE ~rename
    <2>1. \A q \in Procs : /\ call'[q].op = call[q].op /\ call'[q].done = call[q].done
                           /\ call'[q].notice = call[q].notice
      <3>1. call[p].notice = FALSE /\ x.notice = FALSE
        BY <1>3, <1>5, <1>11, <1>13 DEF Calls
      <3>2. QED
        BY <1>4, <1>5, <3>1 DEF IInv, Types
    <2>2. QED
      BY <1>2, <1>7, <1>8, <1>9, <1>10, <1>13, <2>1, Stutter
  <1>14. QED
    BY <1>12, <1>13

LEMMA FailMaps ==
    ASSUME IInv, NEW p \in Procs, Fail(p) \/ FailLate(p)
    PROVE  UNCHANGED Abstract!vars
  <1> DEFINE x == [call[p] EXCEPT !.step = "error"]
  <1>1. /\ call[p].step \in {"lock", "write", "finish"}
        /\ call' = [call EXCEPT ![p] = x]
        /\ UNCHANGED <<windows, alive, file, answer>>
    BY DEF Fail, FailLate, IInv, Types
  <1>2. x.op = call[p].op /\ x.done = call[p].done /\ x.step = "error" /\ x.notice = call[p].notice
    BY CallTyped, StepTyped
  <1>3. \A m \in Names : SeenIn(m, file', call') = SeenIn(m, file, call)
    BY <1>1, <1>2, SeenQuiet
  <1>4. \A q \in Procs : /\ call'[q].op = call[q].op /\ call'[q].done = call[q].done
                           /\ call'[q].notice = call[q].notice
    BY <1>1, <1>2 DEF IInv, Types
  <1>5. QED
    BY <1>1, <1>3, <1>4, Stutter

\* The draft takes the place of the document: the call takes effect.
LEMMA DraftMaps ==
    ASSUME IInv, IInv', NEW p \in Procs, call[p].step \in {"write", "recover"}, NEW x \in Calls,
           file' = [file EXCEPT ![Target(call[p].op)] = call[p].draft],
           call' = [call EXCEPT ![p] = x],
           x.op = call[p].op, x.step = "finish", x.done, x.notice = call[p].notice,
           UNCHANGED <<windows, alive, lock, answer>>
    PROVE  Abstract!TakeEffect(p)
  <1> DEFINE op    == call[p].op
             n     == Target(op)
             draft == call[p].draft
  <1>1. /\ draft \in Doc(n) /\ Content(n, draft) = draft
        /\ Permits(op, Seen(n))
        /\ op \in Ops /\ n \in Names
    BY BaseIsSeen, DraftIsReady
  <1>2. PICK kept \in SUBSET Owners : alive \subseteq kept /\ draft = Apply(op, Seen(n), kept)
    BY DraftIsReady
  <1>3. call'[p] = x /\ file'[n] = draft /\ \A m \in Names : m # n => file'[m] = file[m]
    BY <1>1 DEF IInv, Types
  <1>4. lock'[n] = p /\ ~call[p].done
    BY DEF IInv, CallSound
  <1>5. SeenIn(n, file', call') = draft
    BY <1>1, <1>3, <1>4, SeenFileNext
  <1>6. \A m \in Names : m # n => SeenIn(m, file', call') = SeenIn(m, file, call)
    BY <1>3, SeenOthers
  <1>7. Values' = [Values EXCEPT ![n] = draft]
    BY <1>1, <1>5, <1>6, ValuesStep
  <1>8. Values[n] = Seen(n)
    BY <1>1 DEF Values
  <1>9. Values' = [Values EXCEPT ![n] = Apply(op, @, kept)]
    BY <1>2, <1>7, <1>8
  <1>10. Pending' = [Pending EXCEPT ![p].done = TRUE]
    <2>1. x.done = TRUE
      BY DEF Calls
    <2>2. Pending' = [Pending EXCEPT ![p] = [op |-> op, done |-> TRUE, notice |-> call[p].notice]]
      <3>1. Pending' = [Pending EXCEPT ![p] = [op |-> x.op, done |-> x.done, notice |-> x.notice]]
        BY PendingStep
      <3> HIDE DEF op
      <3>2. x.op = op
        BY DEF op
      <3>3. QED
        BY <2>1, <3>1, <3>2
    <2>3. [Pending[p] EXCEPT !.done = TRUE] = [op |-> op, done |-> TRUE, notice |-> call[p].notice]
      <3>1. Pending[p] \in [op : Ops, done : BOOLEAN, notice : BOOLEAN]
            /\ Pending[p].op = op /\ Pending[p].notice = call[p].notice
        BY <1>1, CallTyped DEF Pending, Calls
      <3>2. QED
        BY <3>1, TakenEffect
    <2>4. QED
      BY <2>2, <2>3
  <1>11. Pending[p].op = op /\ ~Pending[p].done /\ op # None
    BY <1>1, <1>4, Constants DEF Pending
  <1>12. Permits(op, Values[n])
    BY <1>1, <1>8
  <1>13. /\ Abstract!Target(op) = n
         /\ Abstract!Permits(op, Values[n])
         /\ Abstract!Apply(op, Values[n], kept) = Apply(op, Values[n], kept)
    BY <1>12, SameOperations
  <1>14. Abstract!Permits(Pending[p].op, Values[Abstract!Target(Pending[p].op)])
    BY <1>11, <1>13
  <1>15. Values' = [Values EXCEPT ![Abstract!Target(Pending[p].op)] = Abstract!Apply(Pending[p].op, @, kept)]
    BY <1>9, <1>11, <1>13
  <1>16. \E k \in SUBSET Owners :
            /\ alive \subseteq k
            /\ Values' = [Values EXCEPT ![Abstract!Target(Pending[p].op)] = Abstract!Apply(Pending[p].op, @, k)]
    BY <1>2, <1>15
  <1>17. Abstract!TakeEffect(p) <=>
            /\ Pending[p].op # None /\ ~Pending[p].done
            /\ Abstract!Permits(Pending[p].op, Values[Abstract!Target(Pending[p].op)])
            /\ \E k \in SUBSET Owners :
                  /\ alive \subseteq k
                  /\ Values' = [Values EXCEPT ![Abstract!Target(Pending[p].op)] =
                                   Abstract!Apply(Pending[p].op, @, k)]
            /\ Pending' = [Pending EXCEPT ![p].done = TRUE]
            /\ UNCHANGED <<windows, alive, answer>>
    BY DEF Abstract!TakeEffect, Values, Pending, Abstract!Names, Names
  <1>18. QED
    BY <1>10, <1>11, <1>14, <1>16, <1>17

LEMMA ReplaceMaps ==
    ASSUME IInv, IInv', NEW p \in Procs, Replace(p)
    PROVE  Abstract!TakeEffect(p)
  <1> DEFINE x == [call[p] EXCEPT !.step = "finish", !.done = TRUE]
  <1>1. /\ call[p].step = "write"
        /\ file' = [file EXCEPT ![Target(call[p].op)] = call[p].draft]
        /\ call' = [call EXCEPT ![p] = x]
        /\ UNCHANGED <<windows, alive, lock, answer>>
    BY DEF Replace, IInv, Types
  <1>2. call[p] \in Calls
    BY CallTyped
  <1>3. x \in Calls /\ x.op = call[p].op /\ x.step = "finish" /\ x.done /\ x.notice = call[p].notice
    BY <1>2 DEF Calls
  <1>4. QED
    BY <1>1, <1>3, DraftMaps

\* The document is in the backup, where the others find it.
LEMMA HalfReplaceMaps ==
    ASSUME IInv, IInv', NEW p \in Procs, HalfReplace(p)
    PROVE  UNCHANGED Abstract!vars
  <1> DEFINE n == Target(call[p].op)
             x == [call[p] EXCEPT !.step = "recover", !.aside = file[n]]
  <1>1. /\ call[p].step = "write"
        /\ file' = [file EXCEPT ![n] = NoFile]
        /\ call' = [call EXCEPT ![p] = x]
        /\ UNCHANGED <<windows, alive, lock, answer>>
    BY DEF HalfReplace, IInv, Types
  <1>2. call[p] \in Calls /\ n \in Names /\ lock[n] = p
    BY <1>1, CallTyped, Targets DEF IInv, CallSound
  <1>3. file[n] \in AnyFile
    BY <1>2 DEF IInv, Types
  <1>4. x.op = call[p].op /\ x.step = "recover" /\ x.aside = file[n] /\ x.done = call[p].done
        /\ x.notice = call[p].notice
    BY <1>2, <1>3 DEF Calls
  <1>5. call'[p] = x
    BY <1>1 DEF IInv, Types
  <1>6. SeenIn(n, file, call) = Content(n, file[n])
    BY <1>1, <1>2, SeenFile
  <1>7. SeenIn(n, file', call') = Content(n, file[n])
    <2>1. \A q \in Procs : call'[q].step = "recover" => lock'[Target(call'[q].op)] = q
      BY DEF IInv, CallSound
    <2>2. Holder(n, call') = {p}
      BY <1>1, <1>2, <1>4, <1>5, <2>1 DEF Holder
    <2>3. QED
      BY <1>4, <1>5, <2>2 DEF SeenIn
  <1>8. ASSUME NEW m \in Names, m # n PROVE SeenIn(m, file', call') = SeenIn(m, file, call)
    <2>1. file'[m] = file[m]
      BY <1>1, <1>8 DEF IInv, Types
    <2>2. QED
      BY <1>1, <1>4, <1>8, <2>1, SeenOthers
  <1>9. \A q \in Procs : /\ call'[q].op = call[q].op /\ call'[q].done = call[q].done
                           /\ call'[q].notice = call[q].notice
    BY <1>1, <1>4, <1>5 DEF IInv, Types
  <1>10. QED
    BY <1>1, <1>6, <1>7, <1>8, <1>9, Stutter

\* The document that p was recovering is lost.
LEMMA LoseMaps ==
    ASSUME IInv, IInv', NEW p \in Procs, call[p].step = "recover", NEW x \in Calls,
           call' = [call EXCEPT ![p] = x], x.step \in {"error", "idle"},
           file' = file, UNCHANGED <<windows, alive, answer>>,
           lock'[Target(call[p].op)] \in {p, None},
           \/ x.op = call[p].op /\ x.done = call[p].done /\ x.notice = call[p].notice
           \/ x = Idle
    PROVE  Abstract!Lose(p)
  <1> DEFINE op == call[p].op
             n  == Target(op)
  <1>1. /\ op \in Ops /\ n \in Names /\ call[p] \in Calls
        /\ windows /\ file[n] = NoFile /\ ~call[p].done
    BY CallTyped, Targets DEF IInv, CallSound
  <1>2. call'[p] = x /\ \A q \in Procs : q # p => call'[q] = call[q]
    BY DEF IInv, Types
  <1>3. SeenIn(n, file', call') = Empty(n)
    <2>1. SeenIn(n, file', call') = Content(n, NoFile)
      BY <1>1, <1>2, SeenFileNext, Constants
    <2>2. QED
      BY <1>1, <2>1, ContentTyped DEF Files
  <1>4. \A m \in Names : m # n => SeenIn(m, file', call') = SeenIn(m, file, call)
    BY IdleFields, SeenOthers
  <1>5. Values' = [Values EXCEPT ![n] = Empty(n)]
    BY <1>1, <1>3, <1>4, ValuesStep
  <1>6. Pending[p].op = op /\ ~Pending[p].done /\ op # None
    BY <1>1, Constants DEF Pending
  <1>7. Pending' \in {Pending, [Pending EXCEPT ![p] = [op |-> None, done |-> FALSE, notice |-> FALSE]]}
    <2>1. CASE x.op = call[p].op /\ x.done = call[p].done /\ x.notice = call[p].notice
      BY <1>2, <2>1 DEF Pending
    <2>2. CASE x = Idle
      BY <2>2, PendingStep, IdleFields
    <2>3. QED
      BY <2>1, <2>2
  <1>8. Abstract!Target(op) = n /\ Abstract!Empty(n) = Empty(n)
    BY SameOperations, SameDocuments
  <1>9. Values' = [Values EXCEPT ![Abstract!Target(Pending[p].op)] = Abstract!Empty(Abstract!Target(Pending[p].op))]
    BY <1>5, <1>6, <1>8
  <1>10. Abstract!Lose(p) <=>
            /\ windows
            /\ Pending[p].op # None /\ ~Pending[p].done
            /\ Values' = [Values EXCEPT ![Abstract!Target(Pending[p].op)] =
                            Abstract!Empty(Abstract!Target(Pending[p].op))]
            /\ Pending' \in {Pending, [Pending EXCEPT ![p] = [op |-> None, done |-> FALSE, notice |-> FALSE]]}
            /\ UNCHANGED <<windows, alive, answer>>
    BY DEF Abstract!Lose, Abstract!Idle, Values, Pending, Abstract!Names, Names
  <1>11. QED
    BY <1>1, <1>6, <1>7, <1>9, <1>10

LEMMA RecoverMaps ==
    ASSUME IInv, IInv', NEW p \in Procs, Recover(p)
    PROVE  Abstract!TakeEffect(p) \/ Abstract!Lose(p) \/ UNCHANGED Abstract!vars
  <1> DEFINE n == Target(call[p].op)
  <1>1. /\ call[p].step = "recover"
        /\ UNCHANGED <<windows, alive, lock, answer>>
    BY DEF Recover
  <1>2. call[p] \in Calls /\ n \in Names /\ lock[n] = p /\ file[n] = NoFile
    BY <1>1, CallTyped, Targets DEF IInv, CallSound
  <1>3. CASE /\ file' = [file EXCEPT ![n] = call[p].draft]
             /\ call' = [call EXCEPT ![p].step = "finish", ![p].aside = None, ![p].done = TRUE]
    <2> DEFINE x == [call[p] EXCEPT !.step = "finish", !.aside = None, !.done = TRUE]
    <2>1. x \in Calls /\ x.op = call[p].op /\ x.step = "finish" /\ x.done /\ x.notice = call[p].notice
      BY <1>2 DEF Calls, AnyFile
    <2>2. call' = [call EXCEPT ![p] = x]
      BY <1>3 DEF IInv, Types
    <2>3. QED
      BY <1>1, <1>3, <2>1, <2>2, DraftMaps
  <1> DEFINE x == [call[p] EXCEPT !.step = "error", !.aside = None]
  <1>4. x \in Calls /\ x.op = call[p].op /\ x.step = "error" /\ x.done = call[p].done
        /\ x.notice = call[p].notice
    BY <1>2 DEF Calls, AnyFile
  <1>5. CASE /\ file' = [file EXCEPT ![n] = call[p].aside]
             /\ call' = [call EXCEPT ![p].step = "error", ![p].aside = None]
    <2>1. call' = [call EXCEPT ![p] = x]
      BY <1>5 DEF IInv, Types
    <2>2. call'[p] = x /\ file'[n] = call[p].aside /\ \A m \in Names : m # n => file'[m] = file[m]
      BY <1>2, <1>5, <2>1 DEF IInv, Types
    <2>3. SeenIn(n, file, call) = Content(n, call[p].aside)
      <3>1. \A q \in Procs : call[q].step = "recover" => lock[Target(call[q].op)] = q
        BY DEF IInv, CallSound
      <3>2. QED
        BY <1>1, <3>1, SeenAside
    <2>4. SeenIn(n, file', call') = Content(n, call[p].aside)
      BY <1>1, <1>2, <1>4, <2>2, SeenFileNext
    <2>5. \A m \in Names : m # n => SeenIn(m, file', call') = SeenIn(m, file, call)
      BY <1>4, <2>1, <2>2, SeenOthers
    <2>6. \A q \in Procs : /\ call'[q].op = call[q].op /\ call'[q].done = call[q].done
                           /\ call'[q].notice = call[q].notice
      BY <1>4, <2>1, <2>2 DEF IInv, Types
    <2>7. QED
      BY <1>1, <2>3, <2>4, <2>5, <2>6, Stutter
  <1>6. CASE /\ file' = file
             /\ call' = [call EXCEPT ![p].step = "error", ![p].aside = None]
    <2>1. call' = [call EXCEPT ![p] = x]
      BY <1>6 DEF IInv, Types
    <2>2. QED
      BY <1>1, <1>2, <1>4, <1>6, <2>1, LoseMaps
  <1>7. QED
    BY <1>3, <1>5, <1>6 DEF Recover

LEMMA ReturnMaps ==
    ASSUME IInv, NEW p \in Procs, Return(p)
    PROVE  Abstract!Return(p)
  <1> DEFINE ok == call[p].step = "finish"
  <1>1. /\ call[p].step \in {"finish", "error"}
        /\ answer' = [answer EXCEPT ![p] =
                        [ok |-> ok, doc |-> None, notice |-> ok /\ call[p].notice]]
        /\ call' = [call EXCEPT ![p] = Idle]
        /\ UNCHANGED <<windows, alive, file>>
    BY DEF Return
  <1>2. call[p].op \in Ops /\ (ok => call[p].done)
    BY <1>1, CallTyped DEF IInv, CallSound
  <1>3. \A m \in Names : SeenIn(m, file', call') = SeenIn(m, file, call)
    BY <1>1, SeenQuiet, IdleFields
  <1>4. Values' = Values
    BY <1>3, ValuesSame
  <1>5. Pending' = [Pending EXCEPT ![p] = [op |-> None, done |-> FALSE, notice |-> FALSE]]
    BY <1>1, PendingStep, IdleFields
  <1>6. Pending[p].op # None /\ (ok => Pending[p].done) /\ Pending[p].notice = call[p].notice
    BY <1>2, Constants DEF Pending
  <1>7. \E b \in BOOLEAN :
           /\ b => Pending[p].done
           /\ answer' = [answer EXCEPT ![p] = [ok |-> b, doc |-> None, notice |-> b /\ Pending[p].notice]]
    <2>1. ok \in BOOLEAN
      OBVIOUS
    <2>2. QED
      BY <1>1, <1>6, <2>1, Zenon
  <1>8. Abstract!Return(p) <=>
            /\ Pending[p].op # None
            /\ \E b \in BOOLEAN :
                  /\ b => Pending[p].done
                  /\ answer' = [answer EXCEPT ![p] =
                                 [ok |-> b, doc |-> None, notice |-> b /\ Pending[p].notice]]
            /\ Pending' = [Pending EXCEPT ![p] = [op |-> None, done |-> FALSE, notice |-> FALSE]]
            /\ UNCHANGED <<windows, alive, Values>>
    BY DEF Abstract!Return, Abstract!Idle, Values, Pending, Abstract!Names, Names
  <1>9. QED
    BY <1>1, <1>4, <1>5, <1>6, <1>7, <1>8

LEMMA CrashMaps ==
    ASSUME IInv, IInv', NEW p \in Procs, Crash(p)
    PROVE  Abstract!Crash(p) \/ Abstract!Lose(p)
  <1>1. /\ call[p] # Idle /\ lock' = Held(p)
        /\ call' = [call EXCEPT ![p] = Idle]
        /\ UNCHANGED <<windows, alive, file, answer>>
    BY DEF Crash
  <1>2. call[p].op \in Ops /\ Target(call[p].op) \in Names
    BY <1>1, Targets DEF IInv, Types
  <1>3. CASE call[p].step = "recover"
    <2>1. lock'[Target(call[p].op)] = None
      BY <1>1, <1>2, <1>3 DEF IInv, CallSound, Held
    <2>2. Idle \in Calls
      BY DEF Idle, Calls, AnyFile
    <2>3. Abstract!Lose(p)
      BY <1>1, <1>3, <2>1, <2>2, LoseMaps, IdleFields
    <2>4. QED
      BY <2>3
  <1>4. CASE call[p].step # "recover"
    <2>1. \A m \in Names : SeenIn(m, file', call') = SeenIn(m, file, call)
      BY <1>1, <1>4, SeenQuiet, IdleFields
    <2>2. Values' = Values
      BY <2>1, ValuesSame
    <2>3. Pending' = [Pending EXCEPT ![p] = [op |-> None, done |-> FALSE, notice |-> FALSE]]
      BY <1>1, PendingStep, IdleFields
    <2>4. Pending[p].op # None
      BY <1>2, Constants DEF Pending
    <2>5. Abstract!Crash(p) <=>
            /\ Pending[p].op # None
            /\ Pending' = [Pending EXCEPT ![p] = [op |-> None, done |-> FALSE, notice |-> FALSE]]
            /\ UNCHANGED <<windows, alive, Values, answer>>
      BY DEF Abstract!Crash, Abstract!Idle, Values, Pending, Abstract!Names, Names
    <2>6. QED
      BY <1>1, <2>2, <2>3, <2>4, <2>5
  <1>5. QED
    BY <1>3, <1>4

LEMMA MeddleMaps ==
    ASSUME IInv, IInv', NEW n \in Names, Meddle(n)
    PROVE  Abstract!Meddle(n)
  <1>1. /\ lock[n] = None
        /\ UNCHANGED <<windows, alive, lock, call, answer>>
    BY DEF Meddle, LockFree
  <1>2. PICK f \in {Damaged, Unusable} : file' = [file EXCEPT ![n] = f]
    BY DEF Meddle
  <1>3. file'[n] = f /\ \A m \in Names : m # n => file'[m] = file[m]
    BY <1>2 DEF IInv, Types
  <1>4. SeenIn(n, file', call') = Content(n, f)
    BY <1>1, <1>3, SeenFileNext, Constants
  <1>5. \A m \in Names : m # n => SeenIn(m, file', call') = SeenIn(m, file, call)
    BY <1>1, <1>3, SeenSame
  <1>6. Values' = [Values EXCEPT ![n] = Content(n, f)]
    BY <1>4, <1>5, ValuesStep
  <1>7. \/ Content(n, f) = Unusable
        \/ n = "configuration" /\ Content(n, f) = Empty(n)
    BY Constants DEF Content
  <1>8. Values' \in {[Values EXCEPT ![n] = Unusable],
                     [Values EXCEPT !["configuration"] = Abstract!Empty("configuration")]}
    BY <1>6, <1>7, SameDocuments
  <1>9. Pending' = Pending
    BY <1>1 DEF Pending
  <1>10. Abstract!Meddle(n) <=>
            /\ Values' \in {[Values EXCEPT ![n] = Unusable],
                            [Values EXCEPT !["configuration"] = Abstract!Empty("configuration")]}
            /\ UNCHANGED <<windows, alive, Pending, answer>>
    BY DEF Abstract!Meddle, Values, Pending, Abstract!Names, Names
  <1>11. QED
    BY <1>1, <1>8, <1>9, <1>10

\* The owners and the cleanup leave the documents alone.
LEMMA OthersMap ==
    ASSUME UNCHANGED <<windows, file, call, answer>>
    PROVE  Abstract!Live \/ UNCHANGED Abstract!vars
  <1>1. Values' = Values /\ Pending' = Pending
    BY DEF Values, Pending, Seen
  <1>2. Abstract!Live <=> alive' # alive /\ UNCHANGED <<windows, Values, Pending, answer>>
    BY DEF Abstract!Live, Values, Pending, Abstract!Names, Names
  <1>3. UNCHANGED <<windows, alive, Values, Pending, answer>> => UNCHANGED Abstract!vars
    BY DEF Abstract!vars, Values, Pending, Abstract!Names, Names
  <1>4. QED
    BY <1>1, <1>2, <1>3

LEMMA OtherSteps ==
    ASSUME Next
    PROVE  \/ \E p \in Procs :
                 \/ \E op \in Ops : Call(p, op)
                 \/ Load(p) \/ Begin(p) \/ Fail(p) \/ Replace(p) \/ HalfReplace(p)
                 \/ Recover(p) \/ FailLate(p) \/ Return(p) \/ Crash(p)
           \/ \E n \in Names : Meddle(n)
           \/ UNCHANGED <<windows, file, call, answer>>
  <1>1. ASSUME NEW o \in Owners, Start(o) \/ Exit(o) PROVE UNCHANGED <<windows, file, call, answer>>
    BY <1>1 DEF Start, Exit, store
  <1>2. ASSUME NEW w \in Worktrees, StopAction(w) PROVE UNCHANGED <<windows, file, call, answer>>
    BY <1>2 DEF StopAction, store
  <1>3. ASSUME EndAction \/ CheckIdle \/ LockBindings PROVE UNCHANGED <<windows, file, call, answer>>
    BY <1>3 DEF EndAction, CheckIdle, LockBindings, store
  <1>4. ASSUME NEW c \in Containers, Decide(c) PROVE UNCHANGED <<windows, file, call, answer>>
    BY <1>4 DEF Decide, store
  <1>5. ASSUME SendStop \/ EndCleanup \/ CrashCleaner PROVE UNCHANGED <<windows, file, call, answer>>
    BY <1>5 DEF SendStop, EndCleanup, CrashCleaner, store
  <1>6. QED
    BY <1>1, <1>2, <1>3, <1>4, <1>5, Zenon DEF Next, Ops

\* Every step of the stores is a step of Registry, or none.
LEMMA NextMaps == IInv /\ IInv' /\ [Next]_vars => [Abstract!Next]_(Abstract!vars)
  <1> SUFFICES ASSUME IInv, IInv', [Next]_vars
               PROVE  Abstract!Next \/ UNCHANGED Abstract!vars
    OBVIOUS
  <1>1. ASSUME NEW p \in Procs, NEW op \in Ops, Call(p, op) PROVE Abstract!Next
    <2>1. Abstract!Call(p, op) /\ op \in Abstract!ConfigurationOps \cup Abstract!BindingOps
      BY <1>1, CallMaps, SameDocuments DEF Ops
    <2>2. QED
      BY <2>1 DEF Abstract!Next
  <1>2. ASSUME NEW p \in Procs,
               \/ Abstract!TakeEffect(p) \/ Abstract!Return(p) \/ Abstract!Load(p)
               \/ Abstract!Crash(p) \/ Abstract!SetAside(p) \/ Abstract!Lose(p)
        PROVE  Abstract!Next
    BY <1>2 DEF Abstract!Next
  <1>3. ASSUME NEW p \in Procs,
               \/ Load(p) \/ Begin(p) \/ Fail(p) \/ Replace(p) \/ HalfReplace(p)
               \/ Recover(p) \/ FailLate(p) \/ Return(p) \/ Crash(p)
        PROVE  Abstract!Next \/ UNCHANGED Abstract!vars
    BY <1>2, <1>3, LoadMaps, BeginMaps, FailMaps, ReplaceMaps, HalfReplaceMaps, RecoverMaps, ReturnMaps, CrashMaps
  <1>4. ASSUME NEW n \in Names, Meddle(n) PROVE Abstract!Next
    <2>1. Abstract!Meddle(n) /\ n \in Abstract!Names
      BY <1>4, MeddleMaps, SameDocuments
    <2>2. QED
      BY <2>1 DEF Abstract!Next
  <1>5. CASE UNCHANGED <<windows, file, call, answer>>
    BY <1>5, OthersMap DEF Abstract!Next
  <1>6. UNCHANGED vars => UNCHANGED <<windows, file, call, answer>>
    BY DEF vars, store
  <1>7. QED
    BY <1>1, <1>3, <1>4, <1>5, <1>6, OtherSteps

\* The stores keep what Registry promises, for every number of processes,
\* documents and failures; a configuration that cannot be read is set aside, and a
\* success that follows says so.
THEOREM RegistryIsImplemented == Spec => ImplementsRegistry
  <1>1. Init => Abstract!Init
    BY InitMaps
  <1>2. IInv /\ IInv' /\ [Next]_vars => [Abstract!Next]_(Abstract!vars)
    BY NextMaps
  <1>3. QED
    BY <1>1, <1>2, StoreInvariant, PTL DEF ImplementsRegistry, Abstract!Spec, Spec

\* docker stop is never sent to a container that a live process uses: only
\* SendStop ends a container, and no claim is about its target.
THEOREM DatabaseIsKept == Spec => DatabaseInUseStays
  <1>1. ASSUME IInv, [Next]_vars, NEW c \in running \ running'
        PROVE  ~\E k \in claims : k.container = c /\ k.owner \in alive
    <2>1. SendStop
      <3> SUFFICES ASSUME ~SendStop PROVE running' = running
        BY <1>1
      <3>1. ASSUME NEW p \in Procs, NEW op, Call(p, op) PROVE running' = running
        BY <3>1 DEF Call
      <3>2. ASSUME NEW p \in Procs,
                   \/ Load(p) \/ Begin(p) \/ Fail(p) \/ Replace(p) \/ HalfReplace(p)
                   \/ Recover(p) \/ FailLate(p) \/ Return(p) \/ Crash(p)
            PROVE  running' = running
        BY <3>2 DEF Load, Begin, Fail, Replace, HalfReplace, Recover, FailLate, Return, Crash
      <3>3. ASSUME NEW n \in Names, Meddle(n) PROVE running' = running
        BY <3>3 DEF Meddle
      <3>4. ASSUME NEW o \in Owners, Start(o) \/ Exit(o) PROVE running' = running
        BY <3>4 DEF Start, Exit
      <3>5. ASSUME NEW w \in Worktrees, StopAction(w) PROVE running' = running
        BY <3>5 DEF StopAction
      <3>6. ASSUME NEW k \in Containers, Decide(k) PROVE running' = running
        BY <3>6 DEF Decide
      <3>7. ASSUME EndAction \/ CheckIdle \/ LockBindings \/ EndCleanup \/ CrashCleaner PROVE running' = running
        BY <3>7 DEF EndAction, CheckIdle, LockBindings, EndCleanup, CrashCleaner
      <3>8. UNCHANGED vars => running' = running
        BY DEF vars
      <3>9. QED
        BY <1>1, <3>1, <3>2, <3>3, <3>4, <3>5, <3>6, <3>7, <3>8, Zenon DEF Next
    <2>2. clean.step = "send" /\ c = clean.target
      BY <1>1, <2>1 DEF SendStop
    <2>3. QED
      BY <1>1, <2>2 DEF IInv, CleanSound
  <1>2. IInv /\ [Next]_vars =>
           [\A c \in running \ running' : ~\E k \in claims : k.container = c /\ k.owner \in alive]_vars
    BY <1>1
  <1>3. QED
    BY <1>2, StoreInvariant, PTL DEF DatabaseInUseStays, Spec

=============================================================================
