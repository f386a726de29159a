---------------------------- MODULE MCDeployment ----------------------------
(* Small instance of Deployment. *)
EXTENDS Deployment

CONSTANTS me, ann, bob, base, extra

MCUsers == {me, ann, bob}
MCSkills == {base, extra}
MCRequires == (base :> {}) @@ (extra :> {base})

MCWizards == {
  <<"api_key", "telegram", "voice_on", "identity", "summary_sdk">>,
  <<"oauth", "whatsapp", "voice_off", "summary_cli">>,
  <<"gmail">>, <<"voice_on">>, <<"switch_api_key">>, <<"switch_oauth">>}

Scope(live, events, kinds) == [live |-> live, events |-> events, kinds |-> kinds]

MCScopes == {
  Scope(TRUE, 3, {"signal", "crash", "death", "failure", "agent"}),
  Scope(TRUE, 3, {"start", "stop", "signal", "crash"}),
  Scope(FALSE, 2, {"setup", "start", "failure"}),
  Scope(TRUE, 2, {"setup", "signal", "restore"}),
  Scope(FALSE, 3, {"add", "remove", "abandon"}),
  Scope(TRUE, 1, {"remove"}),
  Scope(FALSE, 2, {"remove", "restore", "start", "failure"}),
  Scope(TRUE, 2, {"backup", "restore", "crash", "failure", "death", "abandon"}),
  Scope(FALSE, 4, {"install", "uninstall", "abandon"}),
  Scope(TRUE, 2, {"install", "restore"})}
=============================================================================
