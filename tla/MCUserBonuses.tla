---------------------------- MODULE MCUserBonuses ----------------------------
EXTENDS UserBonuses

CONSTANTS a, b, c, w1, w2

Move(from, to, n) == [from |-> from, to |-> to, amount |-> n]

\* Who was invited by a.
By(invited) == [u \in {a, b, c} |-> IF u \in invited THEN a ELSE NoUser]

\* A user whose wallet receives and gives, with an airdrop; two users and an
\* NFT that goes from wallet to wallet; a user who invites two others; one who
\* invites another and is rewarded by the telegram bot.
MCStarts == {
  [transfers |-> <<Move(Market, w1, 1), Move(w1, Market, 1),
                   Move(Market, w1, 2)>>,
   users |-> {a}, referrer |-> By({}), wallets |-> {w1}, airdrop |-> {w1},
   telegram |-> {}, updates |-> 2],
  [transfers |-> <<Move(Market, w1, 2), Move(w1, w2, 1)>>,
   users |-> {a, b}, referrer |-> By({}), wallets |-> {w1, w2}, airdrop |-> {},
   telegram |-> {}, updates |-> 1],
  [transfers |-> <<Move(Market, w1, 1)>>,
   users |-> {a, b, c}, referrer |-> By({b, c}), wallets |-> {w1},
   airdrop |-> {w1}, telegram |-> {}, updates |-> 0],
  [transfers |-> <<Move(Market, w1, 1)>>,
   users |-> {a, b}, referrer |-> By({b}), wallets |-> {w1}, airdrop |-> {},
   telegram |-> {w1}, updates |-> 0]}
=============================================================================
