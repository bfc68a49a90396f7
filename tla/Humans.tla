-------------------------------- MODULE Humans --------------------------------
(***************************************************************************)
(* Mobs: humans with their hands and their bodies (Human.cpp,              *)
(* HumanInterface.cpp), ghosts, people in the lobby (Ghost.cpp,            *)
(* LoginMob.cpp, Mob.cpp, Lobby.cpp), and the table of which player minds  *)
(* which mob.  Further members of the world:                               *)
(*   mind    players_table, the mob of each player, None of one who is not *)
(*           known                                                         *)
(*   music   musics_for_mobs, what each player hears                       *)
(*   lobby   the lobby                                                     *)
(*   env     the air of each tile as far as people feel it; Atmos has the  *)
(*           gases themselves                                              *)
(***************************************************************************)
EXTENDS Items

CONSTANTS
  Player,
  HUMAN_MAX_HEALTH,   \* 10000 in the code
  ATTACK_CD,          \* ticks between two clicks; 6 in the code
  LAY_TIME            \* ticks somebody who lies down stays down; 50 in the code

ASSUME HumansAssumption == HUMAN_MAX_HEALTH \in Nat /\ ATTACK_CD \in Nat /\ LAY_TIME \in Nat

Unheard == "unheard"
LOBBY_MUSIC == "lobby.ogg"
Silence == ""

-----------------------------------------------------------------------------
(* Minds.                                                                  *)

\* GetNetId: the players who mind the mob, one at most.
NetIds(w, i) == {p \in Player : w.mind[p] = i}
IsMinded(w, i) == NetIds(w, i) # {}

PlayMusic(w, i, name) == [w EXCEPT !.music = Kept([p \in Player |-> IF p \in NetIds(w, i) THEN name ELSE @[p]])]

MindExit(w, i) == IF Is(w, i, {"loginmob"}) THEN PlayMusic(w, i, Silence) ELSE w
MindEnter(w, i) == IF Is(w, i, {"loginmob"}) THEN PlayMusic(w, i, LOBBY_MUSIC) ELSE w

SetPlayerId(w, p, i) == [w EXCEPT !.mind[p] = i]

\* Mutant: the player is not told to the table of players.
MoveMindNowhere(w, from, to) ==
  IF ~IsMinded(w, from) THEN w ELSE MindEnter(MindExit(w, from), to)

MoveMindTo(w, from, to) ==
  IF ~IsMinded(w, from) THEN w
  ELSE LET p == CHOOSE q \in NetIds(w, from) : TRUE
       IN  MindEnter(SetPlayerId(MindExit(w, from), p, to), to)

\* Mob::Delete.
DeleteMob(w, i) == DeleteObject(MindExit(w, i), i)

\* ProcessInputMessage, NEW_CLIENT.
NewClient(w, p) ==
  LET i == NewId(w)
  IN  IF w.mind[p] # None THEN w
      ELSE MindEnter(SetPlayerId(Create(w, "loginmob", None), p, i), i)

-----------------------------------------------------------------------------
(* The body: Human::Live.                                                  *)

CalculateHealth(o) == HUMAN_MAX_HEALTH - (o.suffocation + o.burn + o.brute + o.toxins)

TOXINS_DAMAGE == 50
BURNING_THRESHOLD == 3

Burnt(o, env) == IF env.heat > BURNING_THRESHOLD THEN [o EXCEPT !.burn = @ + env.heat] ELSE o

Poisoned(o, env) ==
  IF env.plasma /\ CalculateHealth(o) >= 0 THEN [o EXCEPT !.toxins = @ + TOXINS_DAMAGE] ELSE o

Suffocated(o) ==
  IF CalculateHealth(o) >= -HUMAN_MAX_HEALTH THEN [o EXCEPT !.suffocation = @ + 100] ELSE o

\* Who has oxygen recovers.
Breathed(o, env) ==
  IF env.oxygen THEN [o EXCEPT !.suffocation = AtLeast(0, @ - 50)] ELSE Suffocated(o)

Felt(o, env) == Breathed(Poisoned(Burnt(o, env), env), env)

\* A ghost where the dead is, which is an error in a closet.
OnDeath(w, h) ==
  LET i == NewId(w)
      left == IF IsMinded(w, h) THEN MoveMindTo(Create(w, "ghost", Owner(w, h)), h, i) ELSE w
  IN  SetFreq([left EXCEPT !.own[h].dead = TRUE], h, 0)

\* In a closet there is no air to feel.
Live(w, h) ==
  LET t == Owner(w, h)
      felt == IF t \in Tile THEN [w EXCEPT !.own[h] = Felt(@, w.env[t])] ELSE w
      rested == [felt EXCEPT !.own[h].lay_timer = AtLeast(0, @ - 1)]
      faint == CalculateHealth(rested.own[h]) < 0
      lying == IF faint /\ ~rested.own[h].lying THEN SetLaying(rested, h, TRUE) ELSE rested
      dying == IF faint THEN [lying EXCEPT !.own[h] = Suffocated(@)] ELSE lying
  IN  IF w.own[h].dead \/ t = None THEN w
      ELSE IF CalculateHealth(dying.own[h]) < -HUMAN_MAX_HEALTH THEN OnDeath(dying, h) ELSE dying

ProcessHuman(w, h) == KeepPulling(Live(w, h), h)

-----------------------------------------------------------------------------
(* Ghosts and the lobby.                                                   *)

ProcessGhost(w, g) ==
  LET older == [w EXCEPT !.own[g].seconds = @ - 1]
      i == NewId(w)
  IN  IF older.own[g].seconds >= 0 \/ ~IsMinded(w, g) THEN older
      ELSE DeleteMob(MoveMindTo(Create(older, "loginmob", None), g, i), g)

ProcessLobby(w, i) == [w EXCEPT !.own[i].seconds = @ - 1]

\* InsertItem of an item just made.
Equip(w, h, slot, kind) ==
  LET i == NewId(w) IN [Create(w, kind, None) EXCEPT !.own[h].slot[slot] = i, !.obj[i].owner = h]

\* Professions.cpp: what each one wears and carries, in the order it is made.
Outfit ==
  [security |-> <<<<"uniform", "uniform">>, <<"feet", "boots">>, <<"head", "helmet">>, <<"suit", "armor">>>>,
   doctor |-> <<<<"uniform", "uniform">>, <<"feet", "boots">>, <<"right_hand", "brutepack">>>>,
   assistant |-> <<<<"uniform", "uniform">>, <<"feet", "boots">>>>,
   clown |-> <<<<"uniform", "uniform">>, <<"feet", "boots">>>>,
   barman |-> <<<<"uniform", "uniform">>, <<"feet", "boots">>, <<"head", "helmet">>, <<"suit", "armor">>,
                <<"right_hand", "revolver">>>>]

\* A human of the profession that is drawn, nowhere yet.
Dressed(w) ==
  FoldLeft(LAMBDA v, e : Equip(v, NewId(w), e[1], e[2]), Create(w, "human", None), Outfit[w.chance.job])

\* LoginMob::ProcessMessage: a round on a map without spawn points starts in its middle.
LoginClick(w, l) ==
  LET h == NewId(w)
      placed == AddObject(Dressed(w), At(Width \div 2, Height \div 2), h)
  IN  IF w.own[w.lobby].seconds > 0 \/ ~IsMinded(w, l) THEN w
      ELSE DeleteMob(MoveMindTo(placed, l, h), l)

-----------------------------------------------------------------------------
(* Hands: HumanInterface.                                                  *)

InHand(w, h) == w.own[h].slot[w.own[h].active_hand]

\* Picked up from the tile or the closet it lies in; the code stops if it is not there.
PickUp(w, h, i) ==
  LET from == Owner(w, i)
      held == [w EXCEPT !.own[h].slot[w.own[h].active_hand] = i, !.obj[i].owner = h]
  IN  IF ~Has(held, from, i) THEN Fail(w, "Unable to RemoveItem")
      ELSE [RemoveObject(held, from, i) EXCEPT !.obj[i].owner = h]

\* What is in the slot is attacked as an item: it is one.
ApplyActiveHandOnSlot(w, h, slot) ==
  LET own == w.own[h]
      hand == own.active_hand
  IN  IF InHand(w, h) # None /\ own.slot[slot] = None
      THEN IF ~IsTypeMatch(slot, KindOf(w, InHand(w, h))) THEN w
           ELSE [w EXCEPT !.own[h].slot = [@ EXCEPT ![slot] = InHand(w, h), ![hand] = None]]
      ELSE IF InHand(w, h) = None /\ own.slot[slot] # None
      THEN [w EXCEPT !.own[h].slot = [@ EXCEPT ![hand] = own.slot[slot], ![slot] = None]]
      ELSE IF own.slot[slot] # None THEN ItemAttacked(w, own.slot[slot], InHand(w, h)) ELSE w

Drop(w, h) ==
  IF InHand(w, h) # None /\ Takes(w, Owner(w, h), InHand(w, h))
  THEN DropItem(AddObject(w, Owner(w, h), InHand(w, h)), h) ELSE w

SwapHands(w, h) ==
  [w EXCEPT !.own[h].active_hand = IF @ = "right_hand" THEN "left_hand" ELSE "right_hand"]

Lay(w, h) ==
  IF w.own[h].lying THEN SetLaying(w, h, FALSE)
  ELSE SetLaying([w EXCEPT !.own[h].lay_timer = @ + LAY_TIME], h, TRUE)

HandleClick(w, h, name) ==
  IF name \in Slot THEN ApplyActiveHandOnSlot(w, h, name)
  ELSE IF name = "stop_pull" THEN StopPull(w, h)
  ELSE IF name = "drop" THEN Drop(w, h)
  ELSE IF name = "swap" THEN SwapHands(w, h)
  ELSE IF name = "lay" THEN Lay(w, h) ELSE w

-----------------------------------------------------------------------------
(* Messages: ProcessMessage of each class of mob.                          *)

Turned(d) ==
  IF d = "west" THEN "east" ELSE IF d = "east" THEN "north" ELSE IF d = "north" THEN "south" ELSE "west"

\* RotationAction: of anything movable, however far.
RotationAction(w, i) ==
  IF Is(w, i, Movable \ Projectile) /\ ~w.obj[i].anchored THEN Rotate(w, i, Turned(DirOf(w, i))) ELSE w

PullAction(w, h, i) ==
  IF Is(w, i, Movable \ Projectile) /\ CanTouch(w, h, i) THEN [w EXCEPT !.own[h].pulled = i] ELSE w

LeftClick(w, h, i) ==
  LET item == InHand(w, h)
  IN  IF Owner(w, i) = None THEN w
      ELSE IF ~CanTouch(w, h, i)
      THEN IF Is(w, item, Gun) /\ Targetable(w, i) THEN Shoot(w, item, i) ELSE w
      ELSE IF item = None /\ Is(w, i, Item) THEN PickUp(w, h, i)
      ELSE PerformAttack(w, h, i, IF item = None THEN Hand ELSE item)

Click(w, h, i, action) ==
  LET late == [w EXCEPT !.own[h].attack_cooldown = w.tick]
  IN  IF w.tick - w.own[h].attack_cooldown < ATTACK_CD THEN w
      ELSE IF ~IsValid(w, i) THEN late
      ELSE IF action = "left_control" THEN PullAction(late, h, i)
      ELSE IF action = "left_r" THEN RotationAction(late, i)
      ELSE IF action = "left" /\ ~late.own[h].lying THEN LeftClick(late, h, i) ELSE late

\* Who stands on something and is not fast already pushes off.
Walks(w, h) ==
  /\ ~w.own[h].lying
  /\ Grips(w, Root(w, h))
  /\ Abs(w.obj[h].motion.force.x) + Abs(w.obj[h].motion.force.y) < 4 * FORCE_UNIT

HumanMessage(w, h, m) ==
  IF m.type = "click" THEN Click(w, h, m.object, m.action)
  ELSE IF m.key \in Dir /\ Walks(w, h) THEN ApplyForce(w, h, StepForce(m.key))
  ELSE HandleClick(w, h, m.key)

MobMessage(w, i, m) ==
  IF Is(w, i, {"human"}) THEN HumanMessage(w, i, m)
  ELSE IF m.type # "ordinary" THEN w
  ELSE IF Is(w, i, {"loginmob"}) THEN IF m.key = "login_click" THEN LoginClick(w, i) ELSE w
  ELSE IF m.key \in Dir THEN TryMove(w, i, m.key).w ELSE w

\* ProcessInputMessage: the mob of a player has to be there.
PlayerMessage(w, p, m) ==
  IF IsValid(w, w.mind[p]) THEN MobMessage(w, w.mind[p], m) ELSE Fail(w, "Game object is not valid")
=============================================================================
