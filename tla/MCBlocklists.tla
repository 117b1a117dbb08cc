---------------------------- MODULE MCBlocklists ----------------------------
(* An instance of Blocklists small enough for TLC. *)
EXTENDS Blocklists

\* ad is the start of adx, aha the start and the end of ahaha.
MCBegins == {<<"ad", "adx">>, <<"aha", "ahaha">>}
MCEnds == {<<"aha", "ahaha">>}

Aha   == <<"aha", "com">>
Ahaha == <<"ahaha", "com">>
AdAha == <<"ad", "aha", "com">>
AdxAha == <<"adx", "aha", "com">>

MCDomain == {Aha, Ahaha, AdAha, AdxAha}

\* The start of Bedtime's period and its end; a minute within it, of another day.
MCAt == {[day |-> "mon", minute |-> 2], [day |-> "mon", minute |-> 1],
         [day |-> "tue", minute |-> 0]}

Symmetry == Permutations(Run)

Everyone == [devices |-> {}, block |-> {"ads"}]
Screens  == [devices |-> {"tv"}, block |-> {}]

\* Spans midnight, from 0:02 to 0:01; on one of the two days only.
Bedtime == [applyTo |-> {"screens"}, block |-> {"social"},
            when |-> {[days |-> {"monday"},
                       periods |-> {[start |-> [h |-> 0, m |-> 2], end |-> [h |-> 0, m |-> 1]]}]}]

List(name, url, category, action) ==
  [name |-> name, url |-> url, category |-> category, action |-> action]

Ads       == List("ads", "ads.txt", "ads", "block")
Social    == List("social", "social.txt", "social", "block")
AllowAds  == List("allow", "allow.txt", "ads", "allow")
\* The same list, moved to a category of its own that nothing blocks at first.
SocialAds == List("social", "social.txt", "ads", "block")
Gaming    == List("gaming", "ads.txt", "gaming", "block")

MCDefaultLists == <<Ads, Social>>

File(lists, interval) ==
  [timezone |-> Nil, look_back |-> Nil, refresh_after |-> Nil, clients |-> Nil,
   method |-> Nil, log_clients |-> Nil,
   groups |-> [all |-> Everyone, screens |-> Screens],
   schedules |-> [bedtime |-> Bedtime],
   lists |-> lists, update_interval |-> interval]

MCFiles == {File(Nil, Nil), File(<<Gaming, Social, AllowAds>>, [n |-> 2, unit |-> "d"])}

OverrideFiles == {File(<<Social>>, Nil), File(<<SocialAds>>, Nil)}

\* One list, which names aha.com but not ahaha.com.
LookAlikeFiles == {File(<<Ads>>, Nil)}

MCPublished ==
  [u \in {"ads.txt", "social.txt", "allow.txt"} |->
     CASE u = "ads.txt" -> {{}, {Aha}}
       [] u = "social.txt" -> {{Aha, AdAha}}
       [] u = "allow.txt" -> {{AdAha}}]
=============================================================================
