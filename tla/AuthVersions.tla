---------------------------- MODULE AuthVersions ----------------------------
(***************************************************************************)
(* The copies of set_notes_auth and get_notes_auth, and of                 *)
(* set_session_auth and get_session_auth, each as the way it departs from  *)
(* the first.  Logging, headers included, and what a copy does to a TLS    *)
(* library change no state of these functions.                             *)
(***************************************************************************)
CONSTANTS
  Requests,
  Null          \* NULL
-----------------------------------------------------------------------------
(* set_notes_auth:                                                         *)
(*   climbs  it stores at the client's own request, not at the one given   *)
(*   pair    it stores the user and the password if "given", "always" (a   *)
(*           NULL replaces the old value), or only if "both" are given     *)
(*   rest    the same of method and type                                   *)
(*   asks    it stores only for a user who has the permission              *)
Set_101 == [climbs |-> TRUE, pair |-> "given", rest |-> "given", asks |-> FALSE]
Set_102 == Set_101
Set_103 == Set_101
Set_122 == Set_101
Set_123 == Set_101
Set_158 == Set_101
Set_159 == Set_101
Set_222 == Set_101
Set_223 == Set_101
Set_262 == Set_101
Set_263 == Set_101
Set_281 == Set_101
Set_282 == Set_101
Set_283 == Set_101
Set_602 == Set_101
Set_661 == Set_101
Set_662 == Set_101
Set_156 == Set_101
Set_266 == Set_101
Set_605 == Set_101
Set_104 == [Set_101 EXCEPT !.climbs = FALSE]
Set_105 == Set_104
Set_124 == Set_104
Set_155 == Set_104
Set_224 == Set_104
Set_264 == Set_104
Set_265 == Set_104
Set_284 == Set_104
Set_603 == Set_104
Set_604 == Set_104
Set_658 == Set_104
Set_659 == Set_104
Set_121 == [Set_101 EXCEPT !.pair = "always"]
Set_221 == Set_121
Set_660 == Set_121
Set_157 == [Set_121 EXCEPT !.rest = "always"]
Set_606 == Set_157
Set_121_safe == [Set_101 EXCEPT !.pair = "both", !.asks = TRUE]
Set_221_safe == Set_121_safe
Set_281_safe == Set_121_safe

(* get_notes_auth:                                                         *)
(*   climbs, key    where it looks, and under which realm's name           *)
(*   checks         it returns nothing where no realm is configured        *)
(*   needsUser      it returns nothing if no user is noted                 *)
(*   userKey, pw    it looks for the user under a key of its own; its      *)
(*                  password is always empty                               *)
(*   setsUser       it sets the user of the request                        *)
Get_226 ==
  [climbs |-> TRUE, checks |-> FALSE, needsUser |-> FALSE, userKey |-> "usual", pw |-> "noted",
   key |-> "realm", setsUser |-> TRUE]
Get_227 == Get_226
Get_228 == Get_226
Get_267 == Get_226
Get_286 == Get_226
Get_287 == Get_226
Get_288 == Get_226
Get_229 == Get_226
Get_289 == Get_226
Get_608 == Get_226
Get_607 == Get_226
Get_610 == Get_226
Get_611 == Get_226
Get_268 == Get_226
Get_269 == Get_226
Get_108 == [Get_226 EXCEPT !.setsUser = FALSE]
Get_109 == Get_108
Get_128 == Get_108
Get_129 == Get_108
Get_161 == Get_108
Get_162 == Get_108
Get_665 == Get_108
Get_666 == Get_108
Get_106 == Get_108
Get_126 == Get_108
Get_127 == Get_108
Get_107 == [Get_108 EXCEPT !.pw = "empty"]
Get_125 == [Get_108 EXCEPT !.climbs = FALSE]
Get_161_safe == [Get_108 EXCEPT !.needsUser = TRUE]
Get_163 == [Get_108 EXCEPT !.userKey = "other"]
Get_164 == [Get_125 EXCEPT !.key = "default"]
Get_225 == [Get_226 EXCEPT !.climbs = FALSE]
Get_271 == [Get_226 EXCEPT !.key = "admin"]
Get_271_safe == [Get_226 EXCEPT !.checks = TRUE]
Get_285 == [Get_225 EXCEPT !.key = "default"]
Get_664 == [Get_108 EXCEPT !.key = "admin"]
Get_664_safe == [Get_108 EXCEPT !.checks = TRUE]
-----------------------------------------------------------------------------
(* set_session_auth: the hash it stores, and whether it asks first for the *)
(* permission of the user.                                                 *)
Set_111 == [hash |-> "md5", asks |-> FALSE]
Set_272 == Set_111
Set_202 == Set_111
Set_478 == Set_111
Set_111_safe == [Set_111 EXCEPT !.asks = TRUE]
Set_165 == [Set_111 EXCEPT !.hash = "text"]
Set_612 == [Set_111 EXCEPT !.hash = "none"]

(* get_session_auth:                                                       *)
(*   source    the session, or a fixed guest                               *)
(*   requires  of r->user: nothing, that it is the realm, or that it is    *)
(*             set                                                         *)
(*   user      r->user is set "if found" or "always"                       *)
(*   pool      the key is built in a pool, or in none                      *)
(*   replaces  there is a second function, which replaces the login        *)
Get_112 ==
  [source |-> "session", requires |-> "nothing", user |-> "if found", pool |-> TRUE,
   replaces |-> FALSE]
Get_131 == Get_112
Get_132 == Get_112
Get_168 == Get_112
Get_113 == Get_112
Get_133 == Get_112
Get_166 == Get_112
Get_231 == Get_112
Get_232 == Get_112
Get_233 == Get_112
Get_273 == Get_112
Get_291 == Get_112
Get_292 == Get_112
Get_293 == Get_112
Get_613 == Get_112
Get_614 == Get_112
Get_615 == Get_112
Get_231_safe == [Get_112 EXCEPT !.requires = "realm"]
Get_291_safe == Get_231_safe
Get_131_safe == [Get_112 EXCEPT !.requires = "set"]
Get_114 == [Get_112 EXCEPT !.user = "always"]
Get_167 == [Get_112 EXCEPT !.source = "guest"]
Get_274 == [Get_112 EXCEPT !.replaces = TRUE]
Get_275 == [Get_112 EXCEPT !.pool = FALSE]
=============================================================================
