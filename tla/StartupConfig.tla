---------------------------- MODULE StartupConfig ----------------------------
(***************************************************************************)
(* From the command line to a configuration (bladb-gateway startup.rs,     *)
(* local/config.rs, run and load_gateway_app of main.rs): which file is    *)
(* read, whether it is for this binary, and what the section of the user   *)
(* module must say.  A file is a record; what is left out or blank is      *)
(* Absent.  The paths in it are taken to be resolved.                      *)
(***************************************************************************)
EXTENDS Manifests

\* run slices the arguments after the command, so there must be a command.
CommandGiven(args) == args # <<>>

\* resolve_config_path: the argument, the environment, the nearest bladb.yml
ConfigPath(args, env, found) ==
  IF Len(args) > 1 THEN args[2] ELSE IF env # Absent THEN env ELSE found

Given(users, fields) == \A f \in fields : users[f] # Absent
NotGiven(users, fields) == \A f \in fields : users[f] = Absent

ValidSession(users) ==
  \/ users.transport = "gateway-auth"
  \/ users.transport = "launcher-http" /\ Given(users, {"launcherUrl"})

ValidJwt(users) ==
  LET files == {"publicKeyFile", "privateKeyFile"} IN
  \/ users.jwt = "HS256" /\ Given(users, {"secret"}) /\ NotGiven(users, files)
  \/ users.jwt \in {"RS256", "EdDSA"} /\ NotGiven(users, {"secret"}) /\ Given(users, files)

ValidPassword(users) == users.password \in {"argon2id", "bcrypt"}

ValidStorage(users) ==
  \/ users.engine = "mysql" /\ Given(users, {"dsn"})
  \/ users.engine = "mongodb" /\ Given(users, {"uri", "database"})

\* A mailer is needed only by what sends mail.
ValidMailer(users) ==
  \/ users.provider = "smtp" /\ Given(users, {"from", "host", "port"})
  \/ users.provider = Absent /\ ~users.verifyEmail /\ ~users.resetPassword

ValidUsers(users) ==
  users.enabled =>
    /\ ValidSession(users) /\ ValidJwt(users) /\ ValidPassword(users)
    /\ ValidStorage(users) /\ ValidMailer(users)

\* OfficialUserModule::from_config, of a module that is switched off too
ProviderBuilt(users) ==
  users.transport = "launcher-http" => Given(users, {"launcherUrl"})

\* from_local_config, from_parts: every manifest of every runtime is read and
\* accepted, and something is there to serve.
ValidGateway(file) ==
  /\ ValidUsers(file.users) /\ ProviderBuilt(file.users)
  /\ \A g \in Members(file.runtimes) :
       ValidPolicies(g.policies) /\ ValidTopology(g.clusters)
  /\ file.modules # {} \/ file.users.enabled

\* load_gateway_startup, load_gateway_app: a cluster role is not served.
Starts(file) == file.mode = "standalone" /\ file.gateway /\ ValidGateway(file)
=============================================================================
