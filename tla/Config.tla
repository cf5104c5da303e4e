------------------------------- MODULE Config -------------------------------
(***************************************************************************)
(* Where settings are and what they say (internal/config): the directories *)
(* of the environment, and the one JSON object of config.json with the     *)
(* values a key may have been given.  A path is a sequence of names, the   *)
(* first of them "/" when it is absolute.                                  *)
(***************************************************************************)
EXTENDS Integers, Sequences

CONSTANTS
    Dirs,     \* the directories environment variables may name
    HomeDirs, \* those that may be the home directory of the user
    PathsSaid,\* the values config.json may give to store.path
    ReposSaid \* the maps of paths to names it may give to store.repos

Unset == <<>>

ASSUME ConfigAssumption ==
    /\ Dirs \cup HomeDirs \subseteq Seq(STRING) \ {Unset}
    /\ PathsSaid \subseteq Seq(STRING)

\* An empty variable is an unset one.  user is what os.UserHomeDir answers.
Environments ==
    [home : Dirs \cup {Unset}, config : Dirs \cup {Unset}, data : Dirs \cup {Unset},
     user : HomeDirs \cup {Unset}]

IsAbs(path) == path # <<>> /\ path[1] = "/"

-----------------------------------------------------------------------------
(* resolveLocations                                                        *)

HomeCollapsed(env) == env.home # Unset

\* xdgDir: the variable, else a directory under the home directory.
XdgKnown(env, dir) == dir # Unset \/ env.user # Unset
XdgDir(env, dir, fallback) == IF dir # Unset THEN dir ELSE env.user \o fallback

Located(env) ==
    HomeCollapsed(env) \/ (XdgKnown(env, env.config) /\ XdgKnown(env, env.data))

ConfigDir(env) ==
    IF HomeCollapsed(env)
    THEN env.home
    ELSE XdgDir(env, env.config, <<".config">>) \o <<"loam-refinery">>

ConfigPath(env) == ConfigDir(env) \o <<"config.json">>
ProfilesDir(env) == ConfigDir(env) \o <<"profiles">>

DefaultStorePath(env) ==
    IF HomeCollapsed(env)
    THEN env.home
    ELSE XdgDir(env, env.data, <<".local", "share">>) \o <<"loam-refinery">>

-----------------------------------------------------------------------------
(* parse.  A key is absent, null, of another type than it should be        *)
(* ("other"), or has a value; null leaves what it is decoded into alone.   *)

NoRepos == [path \in {} |-> <<>>]

Files ==
    [found : {"missing", "unreadable", "malformed", "object"},
     strict : BOOLEAN,        \* the flag-only key is there
     unknown : BOOLEAN,       \* a key that is no key is there
     version : {"absent", "null", "other", "1"},
     store : {"absent", "null", "other", "object"},
     storeUnknown : BOOLEAN,  \* a key of store that is no key is there
     enabled : {"absent", "null", "other", "true", "false"},
     path : {"absent", "null", "other", "string"}, pathSaid : PathsSaid,
     repos : {"absent", "null", "other", "object"}, reposSaid : ReposSaid]

\* A path that starts with "~" cannot be expanded for want of a home directory.
Expandable(env, path) == path = <<>> \/ path[1] # "~" \/ env.user # Unset
ExpandHome(env, path) ==
    IF path # <<>> /\ path[1] = "~" THEN env.user \o Tail(path) ELSE path

\* null is decoded as the empty string, which is no absolute path.
PathAccepted(env, f) ==
    \/ f.path = "absent"
    \/ /\ f.path = "string"
       /\ Expandable(env, f.pathSaid)
       /\ IsAbs(ExpandHome(env, f.pathSaid))

\* A plausible bug: a misspelled key is passed over.
StoreAcceptedLoosely(env, f) ==
    f.store # "other" /\ (f.store = "object" =>
        f.enabled # "other" /\ PathAccepted(env, f) /\ f.repos # "other")

StoreAccepted(env, f) ==
    \/ f.store \in {"absent", "null"}
    \/ /\ f.store = "object"
       /\ ~f.storeUnknown
       /\ f.enabled # "other"
       /\ PathAccepted(env, f)
       /\ f.repos # "other"

Parsed(env, f) ==
    /\ f.found = "object"
    /\ ~f.strict /\ ~f.unknown
    /\ f.version = "1"
    /\ StoreAccepted(env, f)

Accepted(env, f) == Located(env) /\ (f.found = "missing" \/ Parsed(env, f))

\* What the file says of the store, when it says anything.
Says(f) == f.found = "object" /\ f.store = "object"

\* Load, of a file that is accepted.
Load(env, f) ==
    [enabled |-> ~(Says(f) /\ f.enabled = "false"),
     path |-> IF Says(f) /\ f.path = "string" /\ ~HomeCollapsed(env)
              THEN ExpandHome(env, f.pathSaid)
              ELSE DefaultStorePath(env),
     repos |-> IF Says(f) /\ f.repos = "object" THEN f.reposSaid ELSE NoRepos,
     configPath |-> ConfigPath(env)]

=============================================================================
