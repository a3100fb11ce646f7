SPECIFICATION Spec
CONSTANTS
    Poll = {p1}
    BootRedis = bootRedis
    BootRabbit = bootRabbit
    BootDatabase = bootDatabase
    None = none
PROPERTY RabbitRecovers
