---------------------------- MODULE MCChallengeTasks ----------------------------
EXTENDS ChallengeTasks

CONSTANTS t1, t2

\* The second task is blocked by the first.
MCBlockedBy == [t \in {t1, t2} |-> IF t = t2 THEN t1 ELSE NoTask]

\* The tasks are one challenge or two.
Season(p1, p2, challenges, brought) ==
  [pattern |-> [t \in {t1, t2} |-> IF t = t1 THEN p1 ELSE p2],
   challenge |-> [t \in {t1, t2} |-> IF t = t1 THEN 1 ELSE challenges],
   brought |-> brought]

\* Every pattern at least once; users sign up with a wallet, X or Discord.
MCStarts == {
  Season("ENRICH_PROFILE", "CREATE_CHAT_MESSAGES", 1, {}),
  Season("DISCORD_CHALLENGE", "COMMUNITY_CHALLENGE", 1, {}),
  Season("CONNECT_WITH_X", "SHARE_CHALLENGE", 1, {}),
  Season("SOCIAL_TRIBE_CHALLENGE", "SHAROOOORS_CHALLENGE", 2, {"twitter"}),
  Season("PLAY_ANY_GAME", "WHALE_SQUAD", 2, {}),
  Season("WON_GAMES", "PLAY_SETUP_GAMES", 2, {}),
  Season("INVITE_USERS", "CONNECT_WALLET_CHALLENGE", 2, {"wallet"})}
=============================================================================
