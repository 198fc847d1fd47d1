----------------------------- MODULE ModelIndex -----------------------------
(***************************************************************************)
(* The models a router knows (router/lib/cmd.cc): the registration (REG,   *)
(* RTUNREG), the two indexes engine_private and engine_cloud (MDDECL,      *)
(* MDRM), the files of the private models below the user's directory, and  *)
(* MDPUSH, which moves a private model to the storage over a network that  *)
(* may lose the request or the reply, onto a disk that may not take it.    *)
(*                                                                         *)
(* router/bin/main.cc runs one command at a time, so a command is one      *)
(* action.  Commands that are refused change nothing and are left out.     *)
(*                                                                         *)
(* The definitions every module has are called Models... here, so that a   *)
(* module can extend both parts of the router.                             *)
(***************************************************************************)
EXTENDS Naturals, FiniteSets

CONSTANTS
  User,    \* names a router registers under
  Name,    \* names of models
  Id,      \* ids create_id may come up with, and mids users declare
  Content  \* engines

NoUser == "no user"

ASSUME ModelIndexAssumption == NoUser \notin User

VARIABLES
  user,            \* the registered user; NoUser while it is the empty string
  engine_private,  \* (name, id) of the models in the user's directory
  engine_cloud,    \* (name, id) of the models at the storage
  files,           \* (directory, file name) -> engine; NoUser: the parent
  stored,          \* (engineattr.first, engineattr.second) -> engine file
  \* history, read by the properties only
  declared,        \* (name, id) of a private model -> the engine declared
  pushed,          \* model a MDPUSH has put in engine_cloud -> engine pushed
  doubtful,        \* keys of stored at which storing failed or an engine
                   \* outlived its model
  disturbed        \* a command has removed or left behind a private file

modelsVars == <<user, engine_private, engine_cloud, files, stored, declared, pushed, doubtful,
                disturbed>>
indexes == <<engine_private, engine_cloud>>
history == <<declared, pushed, doubtful, disturbed>>

Put(f, k, v) == [x \in DOMAIN f \cup {k} |-> IF x = k THEN v ELSE f[x]]
Drop(f, S) == [x \in DOMAIN f \ S |-> f[x]]
Known == engine_private \cup engine_cloud

ModelsInit ==
  /\ user = NoUser
  /\ engine_private = {} /\ engine_cloud = {}
  /\ files = <<>> /\ stored = <<>>
  /\ declared = <<>> /\ pushed = <<>> /\ doubtful = {} /\ disturbed = FALSE

\* remove_all("../" + user + "/")
RemoveDirectory(u) == {f \in DOMAIN files : f[1] = u}

\* Registering anew removes the directory of the old user; the indexes stay.
REG(name) ==
  /\ user # name
  /\ files' = IF user = NoUser THEN files ELSE Drop(files, RemoveDirectory(user))
  /\ user' = name
  /\ disturbed' = (disturbed \/ engine_private # {})
  /\ UNCHANGED <<indexes, stored, declared, pushed, doubtful>>

RTUNREG ==
  /\ user # NoUser
  /\ files' = Drop(files, RemoveDirectory(user))
  /\ user' = NoUser
  /\ disturbed' = (disturbed \/ engine_private # {})
  /\ UNCHANGED <<indexes, stored, declared, pushed, doubtful>>

NameFree(name) == \A e \in Known : e[1] # name
FaultyIdFree(id) == \A e \in engine_private : e[2] # id  \* the cloud index is not searched
IdFree(id) == \A e \in Known : e[2] # id

\* create_id shuffles until the id is in neither index.
create_id == {id \in Id : IdFree(id)}

\* MDDECL of a name and a mid: a model the storage is said to hold.
MDDECL_cloud(name, mid) ==
  /\ user # NoUser
  /\ NameFree(name) /\ IdFree(mid)
  /\ engine_cloud' = engine_cloud \cup {<<name, mid>>}
  /\ UNCHANGED <<user, engine_private, files, stored, history>>

\* MDDECL with data.  It does not ask for a registration: the file of an
\* unregistered user goes to the parent directory.
FaultyMDDECL_private(name, id, c) ==  \* the file gets the name of the model
  /\ NameFree(name) /\ id \in create_id
  /\ files' = Put(files, <<user, name>>, c)
  /\ engine_private' = engine_private \cup {<<name, id>>}
  /\ declared' = Put(declared, <<name, id>>, c)
  /\ UNCHANGED <<user, engine_cloud, stored, pushed, doubtful, disturbed>>
MDDECL_private(name, id, c) ==
  /\ NameFree(name) /\ id \in create_id
  /\ files' = Put(files, <<user, id>>, c)
  /\ engine_private' = engine_private \cup {<<name, id>>}
  /\ declared' = Put(declared, <<name, id>>, c)
  /\ UNCHANGED <<user, engine_cloud, stored, pushed, doubtful, disturbed>>

\* The file a removal by name deletes has the name of the model, not its id.
RemoveFile(name) ==
  /\ files' = Drop(files, {<<user, name>>})
  /\ disturbed' = (disturbed \/ \E e \in engine_private' : e[2] = name)

\* engineattr is (name, mid).
FaultyEngineattr(name, mid) == <<mid, mid>>
Engineattr(name, mid) == <<name, mid>>

\* No removal reaches the storage: what was pushed of the model stays there.
Outlives(e) == {Engineattr(e[1], e[2])} \cap DOMAIN stored

MDRM_cloud(e) ==
  /\ user # NoUser
  /\ e \in engine_cloud
  /\ engine_cloud' = engine_cloud \ {e}
  /\ pushed' = Drop(pushed, {e})
  /\ doubtful' = doubtful \cup Outlives(e)
  /\ UNCHANGED <<user, engine_private, files, stored, declared, disturbed>>

MDRM_private(e, by) ==
  /\ user # NoUser
  /\ e \in engine_private
  /\ engine_private' = engine_private \ {e}
  /\ RemoveFile(IF by = "id" THEN e[2] ELSE e[1])
  /\ declared' = Drop(declared, {e})
  /\ doubtful' = doubtful \cup Outlives(e)
  /\ UNCHANGED <<user, engine_cloud, stored, pushed>>

\* One request to the storage, sent once more when it fails: whether it was
\* handled, whether the reply came back, and what the disk took.  The
\* storage opens the file with O_EXCL, and replies alike when the open or
\* the write has failed: EnginePush does not look at engine_push's result.
Part == "part"
Outcome == {o \in [handled : BOOLEAN, result : BOOLEAN, taken : {"all", "part", "none"}] :
              o.result => o.handled}
New(k, o) == o.handled /\ k \notin DOMAIN stored
push(k, c, o, listed) ==
  /\ stored' = IF New(k, o) /\ o.taken # "none"
               THEN Put(stored, k, IF o.taken = "all" THEN c ELSE Part) ELSE stored
  /\ doubtful' = CASE ~New(k, o) -> doubtful
                   [] New(k, o) /\ o.taken = "all" /\ listed -> doubtful \ {k}
                   [] OTHER -> doubtful \cup {k}

\* What reading "../" + user + "/" + id gives.
read_(id) == {files[f] : f \in {<<user, id>>} \cap DOMAIN files}

FaultyMDPUSH_private(e, o) ==  \* the result is not looked at
  /\ user # NoUser
  /\ e \in engine_private
  /\ \E c \in read_(e[2]) : /\ push(Engineattr(e[1], e[2]), c, o, TRUE)
                           /\ pushed' = Put(pushed, e, c)
  /\ engine_private' = engine_private \ {e}
  /\ engine_cloud' = engine_cloud \cup {e}
  /\ files' = Drop(files, {<<user, e[2]>>})
  /\ declared' = Drop(declared, {e})
  /\ UNCHANGED <<user, disturbed>>
MDPUSH_private(e, o) ==
  /\ user # NoUser
  /\ e \in engine_private
  /\ \E c \in read_(e[2]) :
       /\ push(Engineattr(e[1], e[2]), c, o, TRUE)
       /\ pushed' = IF o.result THEN Put(pushed, e, c) ELSE pushed
  /\ IF o.result
     THEN /\ engine_private' = engine_private \ {e}
          /\ engine_cloud' = engine_cloud \cup {e}
          /\ files' = Drop(files, {<<user, e[2]>>})
          /\ declared' = Drop(declared, {e})
     ELSE UNCHANGED <<indexes, files, declared>>
  /\ UNCHANGED <<user, disturbed>>

\* MDPUSH with data, which keeps no record of a push that fails: what it
\* has stored of it outlives it.
MDPUSH_data(name, mid, c, o) ==
  /\ user # NoUser
  /\ NameFree(name) /\ mid \in create_id
  /\ push(Engineattr(name, mid), c, o, o.result)
  /\ IF o.result
     THEN /\ engine_cloud' = engine_cloud \cup {<<name, mid>>}
          /\ pushed' = Put(pushed, <<name, mid>>, c)
     ELSE UNCHANGED <<engine_cloud, pushed>>
  /\ UNCHANGED <<user, engine_private, files, declared, disturbed>>

ModelsNext ==
  \/ \E name \in User : REG(name)
  \/ RTUNREG
  \/ \E name \in Name, mid \in Id : MDDECL_cloud(name, mid)
  \/ \E name \in Name, id \in Id, c \in Content : MDDECL_private(name, id, c)
  \/ \E e \in engine_cloud : MDRM_cloud(e)
  \/ \E e \in engine_private, by \in {"id", "name"} : MDRM_private(e, by)
  \/ \E e \in engine_private, o \in Outcome : MDPUSH_private(e, o)
  \/ \E name \in Name, mid \in Id, c \in Content, o \in Outcome : MDPUSH_data(name, mid, c, o)

ModelsSpec == ModelsInit /\ [][ModelsNext]_modelsVars

-----------------------------------------------------------------------------
(* Properties                                                              *)

Model == Name \X Id

ModelsTypeOK ==
  /\ user \in User \cup {NoUser}
  /\ engine_private \subseteq Model /\ engine_cloud \subseteq Model
  /\ DOMAIN files \subseteq (User \cup {NoUser}) \X Id /\ files \in [DOMAIN files -> Content]
  /\ DOMAIN stored \subseteq Model /\ stored \in [DOMAIN stored -> Content \cup {Part}]
  /\ DOMAIN declared = engine_private /\ declared \in [DOMAIN declared -> Content]
  /\ DOMAIN pushed \subseteq engine_cloud /\ pushed \in [DOMAIN pushed -> Content]
  /\ doubtful \subseteq Model
  /\ disturbed \in BOOLEAN

\* The commands look a model up by its name or by its id and take the first
\* match of one index, then of the other: no name and no id is ever in use
\* twice, in neither index nor across the two, so the order is irrelevant.
IndexUnique ==
  /\ \A d, e \in Known : d[1] = e[1] \/ d[2] = e[2] => d = e
  /\ engine_private \cap engine_cloud = {}

\* CPSTART and MDPUSH of a private model read what MDDECL declared under
\* that name and id, through pushes that fail, removals and reused ids,
\* until the router is registered anew with private models left (their
\* files are gone or in another directory) or a removal by name has hit the
\* file of a model whose id is that name.
PrivateBackedUntilDisturbed ==
  ~disturbed => \A e \in engine_private : read_(e[2]) = {declared[e]}

\* MDPUSH gives the private copy up only for one the storage has: the
\* storage holds the engine that was pushed for every model a MDPUSH has put
\* in engine_cloud, through lost requests, lost replies and pushes done
\* again, unless its disk failed to take the engine (the reply says nothing
\* of it) or an engine pushed under that name and id outlived its model.
PushedStoredUnlessDoubtful ==
  \A e \in DOMAIN pushed :
    LET k == Engineattr(e[1], e[2])
    IN  k \notin doubtful => k \in DOMAIN stored /\ stored[k] = pushed[e]

\* What MDPUSH is to achieve: whatever it reports as pushed is stored.
PushedStored ==
  \A e \in DOMAIN pushed : LET k == Engineattr(e[1], e[2])
                           IN  k \in DOMAIN stored /\ stored[k] = pushed[e]

\* DatatranServer.cc:91 "engineattr---first-mid, second-name": the storage
\* takes the first field for the mid, and CPSTART asks for (mid, name).
PushedFound == \A e \in DOMAIN pushed : <<e[2], e[1]>> \in DOMAIN stored
=============================================================================
