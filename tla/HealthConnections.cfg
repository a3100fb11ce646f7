SPECIFICATION Spec
CONSTANTS
    Poll = {p1, p2}
    BootRedis = bootRedis
    BootRabbit = bootRabbit
    BootDatabase = bootDatabase
    None = none
INVARIANTS
    TypeOK
    RabbitConnectionsBounded
PROPERTIES
    StartsWithoutRedisAndRabbit
    RedisRecovers
    RabbitConnects
