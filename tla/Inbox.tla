------------------------------- MODULE Inbox -------------------------------
(***************************************************************************)
(* Notifications and banners (notification.service.ts): lists read through *)
(* the cache, and writes that delete the list they touch afterwards.  A    *)
(* notification is sent in the background, by promises nobody awaits; the  *)
(* model has one message for each reader, and one banner.                  *)
(***************************************************************************)
EXTENDS Redis, Integers

CONSTANTS
  StartDate,   \* the banner is shown from this hour
  EndDate,     \* to this one
  MaxHour      \* bound: hours that pass

ASSUME DatesAssumption == StartDate \in Int /\ EndDate \in Int
ASSUME MaxHourAssumption == MaxHour \in Nat

VARIABLES
  hour,      \* 0, 1, ...
  note,      \* by key: the message of a reader, or the banner
  post,      \* by reader: the section that a background createNotification runs next
  promised   \* history: readers to whom a stored banner's message is due, but for those
             \* whose message the end of a process lost

inboxVars == <<hour, note, post, promised>>

Boxes == Readers \cup {"banners"}
Notes == {"absent", "unread", "read", "dismissed", "orphan"}

\* What a list shows at an hour; being read is part of it.
ListedAt(k, h) ==
  IF note[k] \in {"unread", "read"} /\ (k = "banners" => StartDate <= h /\ h <= EndDate)
  THEN note[k] ELSE "none"

Listed(k) == ListedAt(k, hour)

\* createNotification, called and not awaited: it goes its way when its caller is
\* done with.  A message that is there or on its way is not sent again (bound).
Notify(U) ==
  /\ post' = [u \in Readers |->
                IF u \in U /\ post[u] = "none" /\ note[u] = "absent" THEN "insert"
                ELSE post[u]]
  /\ UNCHANGED <<hour, note, promised>>

\* Those among U whose settings do not refuse messages about groups.
NotifyWilling(U) == \E W \in SUBSET U : Notify(W)

\* Its insert, refused when the account is gone, which nobody but the log hears of.
InsertNote(u) ==
  /\ post[u] = "insert"
  /\ IF u \in users
     THEN /\ note' = [note EXCEPT ![u] = "unread"]
          /\ post' = [post EXCEPT ![u] = "evict"]
     ELSE /\ post' = [post EXCEPT ![u] = "none"]
          /\ UNCHANGED note
  /\ UNCHANGED <<desk, redis, hour, promised>>

\* invalidateUserNotifCache; then the message goes to the user's sockets.
EvictNote(u) ==
  /\ post[u] = "evict"
  /\ Delete(u)
  /\ post' = [post EXCEPT ![u] = "none"]
  /\ UNCHANGED <<desk, hour, note, promised>>

\* getNotifications and getActiveBanners, when nothing is cached.  The hour by which
\* banners are chosen is read before them.
GetList(c, k) ==
  /\ k \in Readers => k \in users
  /\ Miss(k)
  /\ Begin(c, [Request("load-list", Nobody, k, Nobody) EXCEPT !.seen = hour])
  /\ UNCHANGED <<users, redis, inboxVars>>

LoadList(c) ==
  /\ call[c].at = "load-list"
  /\ GoSeeing(c, "store-list", ListedAt(call[c].of, call[c].seen))
  /\ UNCHANGED <<users, redis, inboxVars>>

StoreList(c) ==
  /\ call[c].at = "store-list"
  /\ Store(call[c].of, call[c].seen, Listed(call[c].of))
  /\ End(c)
  /\ UNCHANGED <<users, inboxVars>>

\* createBroadcast: getAllActiveUsers, then the banner ...
CreateBroadcast(c, a) ==
  /\ Admin(a, AdminUserRoutes, "createBroadcast")
  /\ note["banners"] = "absent"
  /\ Begin(c, [Request("insert-banner", a, "banners", Nobody)
                 EXCEPT !.seen = users \cap Readers])
  /\ UNCHANGED <<users, redis, inboxVars>>

InsertBanner(c) ==
  /\ call[c].at = "insert-banner"
  /\ note' = [note EXCEPT !["banners"] = IF @ = "absent" THEN "unread" ELSE @]
  /\ promised' = promised \cup call[c].seen
  /\ Go(c, [call[c] EXCEPT !.at = "evict-banner"])
  /\ UNCHANGED <<users, redis, hour, post>>

\* Mutant: a list that Redis does not delete ends the request.
BroadcastUnlessFailed(c) ==
  /\ call[c].at = "evict-banner"
  /\ Delete("banners")
  /\ IF faults' = faults THEN Notify(call[c].seen) ELSE UNCHANGED inboxVars
  /\ End(c)
  /\ UNCHANGED users

\* ... and, once its list is deleted, a message to each of those users.
Broadcast(c) ==
  /\ call[c].at = "evict-banner"
  /\ Delete("banners")
  /\ Notify(call[c].seen)
  /\ End(c)
  /\ UNCHANGED users

\* markAsRead and markAllAsRead of one's own messages.
MarkAsRead(c, u) ==
  /\ u \in users
  /\ note[u] # "absent"
  /\ Begin(c, Request("mark-read", u, u, Nobody))
  /\ UNCHANGED <<users, redis, inboxVars>>

StoreRead(c) ==
  LET u == call[c].of
  IN /\ call[c].at = "mark-read"
     /\ note' = [note EXCEPT ![u] = IF @ = "unread" THEN "read" ELSE @]
     /\ Go(c, [call[c] EXCEPT !.at = "evict-list", !.as = u])
     /\ UNCHANGED <<users, redis, hour, post, promised>>

\* dismiss, of whatever message: for a banner, dismissed for everybody.  The list to
\* delete is that of the message found.
Dismiss(c, u, k) ==
  /\ u \in users
  /\ note[k] \notin {"absent", "orphan"}
  /\ Begin(c, Request("dismiss", u, k, Nobody))
  /\ UNCHANGED <<users, redis, inboxVars>>

\* Mutant: the list of the user who dismissed is the one that is deleted.
StoreDismissalOwn(c) ==
  /\ call[c].at = "dismiss"
  /\ note' = [note EXCEPT ![call[c].of] = "dismissed"]
  /\ Go(c, [call[c] EXCEPT !.at = "evict-list",
                           !.as = IF call[c].by \in Readers THEN call[c].by ELSE call[c].of])
  /\ UNCHANGED <<users, redis, hour, post, promised>>

\* The update fails when the banner was deleted.
StoreDismissal(c) ==
  LET k == call[c].of
  IN /\ call[c].at = "dismiss"
     /\ IF note[k] = "absent"
        THEN End(c) /\ UNCHANGED note
        ELSE /\ note' = [note EXCEPT ![k] = IF @ = "orphan" THEN @ ELSE "dismissed"]
             /\ Go(c, [call[c] EXCEPT !.at = "evict-list", !.as = k])
     /\ UNCHANGED <<users, redis, hour, post, promised>>

EvictList(c) ==
  /\ call[c].at = "evict-list"
  /\ Delete(call[c].as)
  /\ End(c)
  /\ UNCHANGED <<users, inboxVars>>

\* deleteBanner: found, and then deleted and its list too.
FindBanner(c, a) ==
  /\ Admin(a, AdminUserRoutes, "deleteBroadcast")
  /\ note["banners"] # "absent"
  /\ Begin(c, Request("delete-banner", a, "banners", Nobody))
  /\ UNCHANGED <<users, redis, inboxVars>>

\* The delete fails when the banner is gone.
DeleteBanner(c) ==
  /\ call[c].at = "delete-banner"
  /\ IF note["banners"] = "absent"
     THEN End(c) /\ UNCHANGED note
     ELSE /\ note' = [note EXCEPT !["banners"] = "absent"]
          /\ Go(c, [call[c] EXCEPT !.at = "evict-list", !.as = "banners"])
  /\ UNCHANGED <<users, redis, hour, post, promised>>

\* startDate or endDate passes: getActiveBanners would put the banner in or leave it
\* out, the entry does not.
NewHour ==
  /\ hour < MaxHour
  /\ hour' = hour + 1
  /\ ChangeUnnoticed(IF ListedAt("banners", hour + 1) = Listed("banners") THEN {}
                     ELSE {"banners"})
  /\ UNCHANGED <<desk, note, post, promised>>

\* A deleted account's messages stay, and are nobody's; their list is not deleted.
Orphaned(u) ==
  [k \in Boxes |-> IF k = u /\ note[k] # "absent" THEN "orphan" ELSE note[k]]

\* The process ends under a background message, or the database refuses it.
DropPost(u) ==
  /\ post[u] # "none"
  /\ IF post[u] = "evict" THEN ChangeUnnoticed({u}) ELSE UNCHANGED redis
  /\ post' = [post EXCEPT ![u] = "none"]
  /\ promised' = IF post[u] = "insert" THEN promised \ {u} ELSE promised
  /\ UNCHANGED <<desk, hour, note>>

InboxNext(c) ==
  \/ \E k \in Boxes : GetList(c, k)
  \/ LoadList(c) \/ StoreList(c)
  \/ \E a \in Users : CreateBroadcast(c, a) \/ FindBanner(c, a)
  \/ InsertBanner(c) \/ Broadcast(c) \/ DeleteBanner(c)
  \/ \E u \in Readers : MarkAsRead(c, u)
  \/ \E u \in Users, k \in Boxes : Dismiss(c, u, k)
  \/ StoreRead(c) \/ StoreDismissal(c) \/ EvictList(c)

-----------------------------------------------------------------------------

InboxTypeOK ==
  /\ note \in [Boxes -> Notes]
  /\ post \in [Readers -> {"none", "insert", "evict"}]
  /\ promised \subseteq Readers
  /\ hour \in 0 .. MaxHour

Evicting(k) ==
  \/ \E c \in Clients : call[c].at = "evict-list" /\ call[c].as = k
  \/ k = "banners" /\ \E c \in Clients : call[c].at = "evict-banner"
  \/ k \in Readers /\ post[k] = "evict"

\* "invalidated on any write for this user" (notification.service.ts:324, :347): a
\* cached list that differs from the rows is about to be deleted, or else excused:
\* it was read before a change and stored after it, its delete was lost or its
\* request stopped, the banner's time came or passed, or the reader's account is gone.
ListsExplained ==
  \A k \in Boxes : Miss(k) \/ entry[k] = {Listed(k)} \/ Evicting(k) \/ k \in excused

\* "Per-user inbox notification" (notification.service.ts:288): once the banner of a
\* broadcast is stored, everybody whom it was for and who still has an account gets its
\* message, even if Redis fails, other accounts go and other messages are refused; not
\* so if the process ends before, when nothing resumes the broadcast.
BroadcastReachesAll ==
  \A u \in promised \cap users :
    \/ note[u] # "absent"
    \/ post[u] = "insert"
    \/ \E c \in Clients : call[c].at = "evict-banner" /\ u \in call[c].seen
=============================================================================
