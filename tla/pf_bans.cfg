\* Bans, the SPA loop and the reaper: where rules come from.
SPECIFICATION FairSpec
CONSTANTS
    IP = {ip1, ip2}
    User = {u1, u2}
    TTL = 1
    BanTTL = 2
    Bannable = {u1}
    NoIP = NoIP
INVARIANTS
    RuleIsBacked
PROPERTIES
    ExpiredRulesGo
    LiveRuleStays
