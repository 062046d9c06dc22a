----------------------------- MODULE MCAccounts -----------------------------
(* The instance of Accounts that TLC checks. *)
EXTENDS Accounts

Keep == [on |-> "keep", role |-> "keep", email |-> "keep"]
MCPatches == {[Keep EXCEPT !.on = "on"], [Keep EXCEPT !.on = "off"], [Keep EXCEPT !.role = "user"],
              [Keep EXCEPT !.on = "off", !.role = "bogus"], [Keep EXCEPT !.role = "tv"],
              [Keep EXCEPT !.email = "b"]}

MCScenarios == {{"invites", "passwords"}, {"invites", "emails"}, {"emails", "policy"},
                {"2fa", "passwords"}, {"2fa", "policy"}, {"sessions", "users"}, {"sessions", "passwords"}}
=============================================================================
